---- MODULE Spec2Model ----
(***************************************************************************)
(* riboviz: workflow configuration upgrade (riboviz/upgrade_config.py).    *)
(*                                                                         *)
(* A configuration is a function from parameter names (strings) to values. *)
(* A value is a record [t, v]: t is the YAML/Python type and v the value's *)
(* text as a sequence of characters, so that os.path.split can be modelled *)
(* on the characters of a string value.                                    *)
(***************************************************************************)
EXTENDS Integers, Sequences, FiniteSets, TLC

(* ---------------------------------------------------------------- bounds *)
\* Longest string value (in characters) given to a parameter of the input.
MaxLen == 2
\* Most parameters added to (or overriding) a base configuration in the input.
MaxExtraKeys == 1

(* ---------------------------------------------------------------- values *)
None == [t |-> "null", v |-> <<>>]
True == [t |-> "bool", v |-> <<"T">>]
False == [t |-> "bool", v |-> <<"F">>]
IntVal(digits) == [t |-> "int", v |-> digits]
StrVal(chars) == [t |-> "str", v |-> chars]

(* ---------------------------------------------------------------- tables *)
\* params.<NAME> is written as the parameter name the module docstring
\* gives for it (upgrade_config.py lines 5-84).
RENAMES ==
    << <<"Buffer", "buffer">>,
       <<"MaxReadLen", "max_read_length">>,
       <<"MinReadLen", "min_read_length">>,
       <<"PrimaryID", "primary_id">>,
       <<"SecondID", "secondary_id">>,
       <<"StopInCDS", "stop_in_feature">>,
       <<"codon_pos", "codon_positions_file">>,
       <<"nprocesses", "num_processes">>,
       <<"orf_fasta", "orf_fasta_file">>,
       <<"orf_index", "orf_index_prefix">>,
       <<"rRNA_fasta", "rrna_fasta_file">>,
       <<"rRNA_index", "rrna_index_prefix">>,
       <<"ribovizGFF", "is_riboviz_gff">>,
       <<"stop_in_cds", "stop_in_feature">>,
       <<"t_rna", "t_rna_file">>,
       <<"do_pos_sp_nt_freq", "output_metagene_normalized_profile">> >>

UPDATES ==
    << <<"asite_disp_length_file", None>>,
       <<"output_metagene_normalized_profile", True>>,
       <<"codon_positions_file", None>>,
       <<"count_reads", True>>,
       <<"count_threshold", IntVal(<<"6", "4">>)>>,
       <<"dedup_stats", False>>,
       <<"dedup_umis", False>>,
       <<"extract_umis", False>>,
       <<"feature", StrVal(<<"C", "D", "S">>)>>,
       <<"features_file", None>>,
       <<"fq_files", None>>,
       <<"group_umis", False>>,
       <<"multiplex_fq_files", None>>,
       <<"output_pdfs", True>>,
       <<"publish_index_tmp", False>>,
       <<"run_static_html", True>>,
       <<"sample_sheet", None>>,
       <<"samsort_memory", None>>,
       <<"stop_in_feature", False>>,
       <<"trim_5p_mismatches", True>>,
       <<"t_rna_file", None>>,
       <<"umi_regexp", None>> >>

\* params.DEFAULT_JOB_CONFIG: the job parameters of the module docstring
\* (lines 41-53, 63) and params.NEXTFLOW_RESUME, which upgrade_config deletes
\* from its copy (lines 177-178).
DEFAULT_JOB_CONFIG ==
    << <<"job_email", None>>,
       <<"job_email_events", StrVal(<<"b", "e", "a", "s">>)>>,
       <<"job_memory", StrVal(<<"8", "G">>)>>,
       <<"job_name", StrVal(<<"r", "i", "b", "o", "v", "i", "z">>)>>,
       <<"job_num_cpus", IntVal(<<"4">>)>>,
       <<"job_parallel_env", StrVal(<<"m", "p", "i">>)>>,
       <<"job_runtime", StrVal(<<"4", "8", ":", "0", "0", ":", "0", "0">>)>>,
       <<"nextflow_dag_file", StrVal(<<"n", "e", "x", "t", "f", "l", "o", "w", "-", "d", "a", "g", ".", "h", "t", "m", "l">>)>>,
       <<"nextflow_report_file", StrVal(<<"n", "e", "x", "t", "f", "l", "o", "w", "-", "r", "e", "p", "o", "r", "t", ".", "h", "t", "m", "l">>)>>,
       <<"nextflow_resume", False>>,
       <<"nextflow_timeline_file", StrVal(<<"n", "e", "x", "t", "f", "l", "o", "w", "-", "t", "i", "m", "e", "l", "i", "n", "e", ".", "h", "t", "m", "l">>)>>,
       <<"nextflow_trace_file", StrVal(<<"n", "e", "x", "t", "f", "l", "o", "w", "-", "t", "r", "a", "c", "e", ".", "t", "s", "v">>)>>,
       <<"nextflow_work_dir", StrVal(<<"w", "o", "r", "k">>)>>,
       <<"validate_only", False>> >>

NEXTFLOW_RESUME == "nextflow_resume"

UNUSED == << "aligner", "isTestRun", "is_test_run", "cmd_file", "dir_logs" >>

RRNA_INDEX_PREFIX == "rrna_index_prefix"
ORF_INDEX_PREFIX == "orf_index_prefix"
\* The keys of the index-prefix loop, in its order (line 184).
INDEX_PREFIX_KEYS == << RRNA_INDEX_PREFIX, ORF_INDEX_PREFIX >>

Range(s) == { s[i] : i \in 1..Len(s) }
Keys(table) == { table[i][1] : i \in 1..Len(table) }

(* ------------------------------------------------------- dict operations *)
EmptyConfig == [k \in {} |-> None]
\* del config[key]
DelKey(config, key) == [k \in (DOMAIN config) \ {key} |-> config[k]]
\* config[key] = value
SetKey(config, key, value) == (key :> value) @@ config

(* ----------------------------------------------------------- rename pass *)
\* Mutant: the value is copied to new_key and old_key is not deleted.
RenameOneKeepsOld(config, old_key, new_key) ==
    IF old_key \in DOMAIN config
    THEN SetKey(config, new_key, config[old_key])
    ELSE config

\* One iteration of the loop of lines 165-169.
RenameOne(config, old_key, new_key) ==
    IF old_key \in DOMAIN config
    THEN SetKey(DelKey(config, old_key), new_key, config[old_key])
    ELSE config

\* Mutant: the entries of RENAMES are applied last to first.
RECURSIVE RenameBackFrom(_, _)
RenameBackFrom(config, i) ==
    IF i > Len(RENAMES) THEN config
    ELSE RenameOne(RenameBackFrom(config, i + 1), RENAMES[i][1], RENAMES[i][2])

RECURSIVE RenameFrom(_, _)
RenameFrom(config, i) ==
    IF i > Len(RENAMES) THEN config
    ELSE RenameFrom(RenameOne(config, RENAMES[i][1], RENAMES[i][2]), i + 1)

RenameParams(config) == RenameFrom(config, 1)

(* ------------------------------------------------------ default injection *)
\* Mutant: the default is lost, the key is added with a null value.
AddOneNull(config, key, value) ==
    IF key \notin DOMAIN config THEN SetKey(config, key, None) ELSE config

\* Mutant: the default is set whether or not the key is present.
AddOneOverwrites(config, key, value) == SetKey(config, key, value)

\* One iteration of the loops of lines 172-174 and 179-181.
AddOne(config, key, value) ==
    IF key \notin DOMAIN config THEN SetKey(config, key, value) ELSE config

RECURSIVE AddFrom(_, _, _)
AddFrom(config, table, i) ==
    IF i > Len(table) THEN config
    ELSE AddFrom(AddOne(config, table[i][1], table[i][2]), table, i + 1)

\* job_config = params.DEFAULT_JOB_CONFIG.copy(); del job_config[NEXTFLOW_RESUME]
\* defaults is params.DEFAULT_JOB_CONFIG as the call finds it.
JobConfig(defaults) ==
    SelectSeq(defaults, LAMBDA e : e[1] # NEXTFLOW_RESUME)

AddParams(config, defaults) ==
    AddFrom(AddFrom(config, UPDATES, 1), JobConfig(defaults), 1)

(* ------------------------------------------------------- index prefixes *)
\* Mutant: the first "/" is taken (find for rfind).
FirstSlash(p) ==
    LET at == { i \in 1..Len(p) : p[i] = "/" }
    IN  IF at = {} THEN 0 ELSE CHOOSE i \in at : \A j \in at : i <= j

\* posixpath.split(p)[1]: the characters after the last "/".
LastSlash(p) ==
    LET at == { i \in 1..Len(p) : p[i] = "/" }
    IN  IF at = {} THEN 0 ELSE CHOOSE i \in at : \A j \in at : j <= i

\* Mutant: os.path.split(p)[0], without its trailing "/", for [1].
SplitHead(p) ==
    LET at == { i \in 1..Len(p) : p[i] = "/" }
        last == IF at = {} THEN 0 ELSE CHOOSE i \in at : \A j \in at : j <= i
    IN  SubSeq(p, 1, last - 1)

SplitTail(p) == SubSeq(p, LastSlash(p) + 1, Len(p))

\* What config[key] and os.path.split raise for this key, or "none".
PrefixError(config, key) ==
    IF key \notin DOMAIN config THEN "KeyError"
    ELSE IF config[key].t # "str" THEN "TypeError"
    ELSE "none"

PrefixOne(config, key) == SetKey(config, key, StrVal(SplitTail(config[key].v)))

\* The loop of lines 184-186 from its i-th key on: the configuration it
\* leaves and the exception that ended it ("none" when it completed).
RECURSIVE PrefixFrom(_, _)
PrefixFrom(config, i) ==
    IF i > Len(INDEX_PREFIX_KEYS) THEN [config |-> config, raised |-> "none"]
    ELSE LET key == INDEX_PREFIX_KEYS[i]
             e == PrefixError(config, key)
         IN  IF e # "none" THEN [config |-> config, raised |-> e]
             ELSE PrefixFrom(PrefixOne(config, key), i + 1)

IndexPrefixes(config) == PrefixFrom(config, 1)

(* ---------------------------------------------------------- removal pass *)
\* Mutant: the test of line 190 is inverted, nothing is deleted.
RemoveOneNever(config, key) == config

RemoveOne(config, key) ==
    IF key \in DOMAIN config THEN DelKey(config, key) ELSE config

RECURSIVE RemoveFrom(_, _)
RemoveFrom(config, i) ==
    IF i > Len(UNUSED) THEN config
    ELSE RemoveFrom(RemoveOne(config, UNUSED[i]), i + 1)

\* Mutant: the keys that no table produces are removed as well.
RemoveUnknown(config) ==
    LET c == RemoveFrom(config, 1)
        produced == { RENAMES[i][2] : i \in 1..Len(RENAMES) }
                        \cup Keys(UPDATES) \cup Keys(DEFAULT_JOB_CONFIG)
    IN  [k \in (DOMAIN c) \cap produced |-> c[k]]

RemoveUnused(config) == RemoveFrom(config, 1)

(* ---------------------------------------------------------------- inputs *)
PathChars == { "a", "/" }
\* Every string of at most MaxLen characters over PathChars.
Paths == UNION { [1..n -> PathChars] : n \in 0..MaxLen }

LegacyKeys == Keys(RENAMES)
CurrentKeys ==
    { RENAMES[i][2] : i \in 1..Len(RENAMES) } \cup Keys(UPDATES)
        \cup Keys(DEFAULT_JOB_CONFIG)
\* Parameters that are in none of the tables of upgrade_config.py.
OtherKeys == { "StopInFeature", "dataset", "unknown" }
AllKeys == LegacyKeys \cup CurrentKeys \cup Range(UNUSED) \cup OtherKeys

\* The parameters whose value reaches os.path.split.
IndexKeys == { "rRNA_index", "orf_index", RRNA_INDEX_PREFIX, ORF_INDEX_PREFIX }

ValuesOf(key) ==
    IF key \in IndexKeys
    THEN { None } \cup { StrVal(p) : p \in Paths }
    ELSE { None, False }

\* A configuration of the current release, one written before the renames
\* (as the example of the module docstring, lines 70-71), and an empty one.
CurrentBase ==
    [k \in { RRNA_INDEX_PREFIX, ORF_INDEX_PREFIX, "dataset" } |->
        IF k = "dataset" THEN StrVal(<<"v", "/", "d">>) ELSE StrVal(<<"a">>)]
LegacyBase ==
    [k \in { "rRNA_index", "orf_index", "StopInCDS", "isTestRun", "aligner" } |->
        CASE k = "rRNA_index" -> StrVal(<<"v", "/", "i", "/", "r">>)
          [] k = "orf_index" -> StrVal(<<"v", "/", "i", "/", "o">>)
          [] k = "StopInCDS" -> True
          [] k = "isTestRun" -> False
          [] OTHER -> StrVal(<<"h">>)]
Bases == { EmptyConfig, CurrentBase, LegacyBase }

\* Every configuration of at most n parameters.
RECURSIVE ConfigsUpTo(_)
ConfigsUpTo(n) ==
    IF n = 0 THEN { EmptyConfig }
    ELSE LET smaller == ConfigsUpTo(n - 1)
         IN  smaller \cup UNION UNION
                 { { { SetKey(c, k, val) : val \in ValuesOf(k) }
                       : k \in AllKeys \ DOMAIN c } : c \in smaller }

\* base, with the parameters of extra added or overriding base's.
Merge(extra, base) == extra @@ base

Inputs == { Merge(extra, base) : extra \in ConfigsUpTo(MaxExtraKeys), base \in Bases }

(* ----------------------------------------------------------- file system *)
INPUT == "in.yaml"
OUTPUT == "out.yaml"
Files == { INPUT, OUTPUT }
NoFile == "None"

Absent == [kind |-> "absent", data |-> EmptyConfig]
Directory == [kind |-> "dir", data |-> EmptyConfig]
\* A YAML file, by the mapping yaml.load reads from it and yaml.dump wrote.
YamlFile(config) == [kind |-> "file", data |-> config]

\* Mutant: os.path.exists alone, a directory passes.
Exists(files, path) == files[path].kind # "absent"

\* os.path.exists(path) and os.path.isfile(path)
IsFile(files, path) == files[path].kind = "file"

\* The configurations written to input_file: a base, with at most
\* MaxExtraKeys of the parameters that reach os.path.split added or overridden.
RECURSIVE IndexConfigsUpTo(_)
IndexConfigsUpTo(n) ==
    IF n = 0 THEN { EmptyConfig }
    ELSE LET smaller == IndexConfigsUpTo(n - 1)
         IN  smaller \cup UNION UNION
                 { { { SetKey(c, k, val) : val \in ValuesOf(k) }
                       : k \in IndexKeys \ DOMAIN c } : c \in smaller }

FileInputs ==
    { Merge(extra, base) : extra \in IndexConfigsUpTo(MaxExtraKeys), base \in Bases }

(* ----------------------------------------------------------------- state *)
VARIABLES
    fs,           \* the file system: file name -> Absent, Directory or YamlFile
    input_file,   \* upgrade_config_file's argument; NoFile when upgrade_config
                  \* is called on a dict, outside upgrade_config_file
    output_file,  \* upgrade_config_file's argument, NoFile for None
    stdout,       \* what has been printed, a sequence of configurations
    config,       \* the dict upgrade_config works on
    pc,           \* position in the function or test module being run
    raised,       \* the exception that ended the call, "none" if none
    run,          \* 1 in the first call of upgrade_config, 2 in the second
    input,        \* history: the dict as passed to this call of upgrade_config
    pre_prefix,   \* history: the dict before the index-prefix loop
    job_defaults, \* the module-level dict params.DEFAULT_JOB_CONFIG
    directory,           \* compare_sam_files' argument: the data directory
    expected_directory,  \* compare_sam_files' argument: the --expected root
    dir_name,            \* compare_sam_files' local dir_name
    expected_file,       \* compare_sam_files' local expected_file
    scratch,      \* the scratch directory: subdirectory name -> its state
    sam,          \* the records of the expected and of the actual SAM file
    module,       \* the test module pytest runs
    options,      \* pytest's command-line options
    params,       \* the workflow's flags in the configuration file
    fixture,      \* cached result of the module-scoped prep_riboviz_fixture
    invoked,      \* the pipeline runners invoked so far, in order
    index,        \* position, in the module, of the test being run
    files,        \* the expected and actual files the current test looks at
    report,       \* outcome and calls of the current test
    ran,          \* history: a test was run before the current one
    tsv_check,    \* the test that calls utils.equal_tsv, "none" for a direct call
    tolerances,   \* the keyword arguments utils.equal_tsv is called with
    tsv_files     \* the rows of the expected and of the actual TSV file

\* The state of upgrade_config and upgrade_config_file.
upgrade == << fs, input_file, output_file, stdout, config, run, input,
              pre_prefix, job_defaults >>

\* The state of compare_sam_files.
comparison == << directory, expected_directory, dir_name, expected_file,
                 scratch, sam >>

\* The state of a test module's run.
session == << module, options, params, fixture, invoked, index, files,
              report, ran >>

\* The state of a call of utils.equal_tsv.
tsv == << tsv_check, tolerances, tsv_files >>

vars == << upgrade, pc, raised, comparison, session, tsv >>

\* No test module is running.
NoSession ==
    /\ module = "none"
    /\ options = << >>
    /\ params = << >>
    /\ fixture = "unset"
    /\ invoked = << >>
    /\ index = 0
    /\ files = << >>
    /\ report = << >>
    /\ ran = FALSE

\* compare_sam_files is not called.
NoComparison ==
    /\ directory = << >>
    /\ expected_directory = << >>
    /\ dir_name = << >>
    /\ expected_file = << >>
    /\ scratch = << >>
    /\ sam = << >>

\* utils.equal_tsv is not called.
NoTsv ==
    /\ tsv_check = "none"
    /\ tolerances = << >>
    /\ tsv_files = << >>

\* None is the case.
NoHarness == NoComparison /\ NoSession /\ NoTsv

\* upgrade_config(config) called on a dict.
InitConfig ==
    /\ input_file = NoFile
    /\ output_file = NoFile
    /\ fs = [p \in Files |-> Absent]
    /\ stdout = << >>
    /\ config \in Inputs
    /\ input = config
    /\ pc = "rename"
    /\ raised = "none"
    /\ run = 1
    /\ pre_prefix = EmptyConfig
    /\ job_defaults = DEFAULT_JOB_CONFIG
    /\ NoHarness

\* upgrade_config_file(input_file, output_file) called.
InitFile ==
    /\ input_file = INPUT
    /\ output_file \in { NoFile, OUTPUT, INPUT }
    /\ \E f \in { Absent, Directory } \cup { YamlFile(c) : c \in FileInputs } :
           fs = [p \in Files |-> IF p = INPUT THEN f ELSE Absent]
    /\ stdout = << >>
    /\ config = EmptyConfig
    /\ input = EmptyConfig
    /\ pc = "call"
    /\ raised = "none"
    /\ run = 1
    /\ pre_prefix = EmptyConfig
    /\ job_defaults = DEFAULT_JOB_CONFIG
    /\ NoHarness

\* assert os.path.exists(input_file) and os.path.isfile(input_file)
CheckInput ==
    /\ pc = "call"
    /\ IF IsFile(fs, input_file)
       THEN pc' = "load" /\ raised' = raised
       ELSE pc' = "raised" /\ raised' = "AssertionError"
    /\ UNCHANGED << fs, input_file, output_file, stdout, config,
                    run, input, pre_prefix, job_defaults, comparison,
                    session, tsv >>

\* Mutant: output_file is opened for writing, and so created or truncated,
\* before input_file is read.
LoadConfigAfterOpen ==
    /\ pc = "load"
    /\ fs' = IF output_file # NoFile
             THEN [fs EXCEPT ![output_file] = YamlFile(EmptyConfig)]
             ELSE fs
    /\ config' = fs'[input_file].data
    /\ input' = fs'[input_file].data
    /\ pc' = "rename"
    /\ UNCHANGED << input_file, output_file, stdout, raised, run,
                    pre_prefix, job_defaults, comparison, session, tsv >>

\* with open(input_file, 'r') as f: config = yaml.load(f, yaml.SafeLoader)
LoadConfig ==
    /\ pc = "load"
    /\ config' = fs[input_file].data
    /\ input' = fs[input_file].data
    /\ pc' = "rename"
    /\ UNCHANGED << fs, input_file, output_file, stdout, raised, run,
                    pre_prefix, job_defaults, comparison,
                    session, tsv >>

\* Lines 164-169.
Rename ==
    /\ pc = "rename"
    /\ config' = RenameParams(config)
    /\ pc' = "add"
    /\ UNCHANGED << fs, input_file, output_file, stdout, raised,
                    run, input, pre_prefix, job_defaults, comparison,
                    session, tsv >>

\* Mutant: the removal pass begins when the defaults are injected, the
\* index-prefix loop not having run.
AddThenRemove ==
    /\ pc = "add"
    /\ config' = AddParams(config, job_defaults)
    /\ pre_prefix' = config'
    /\ pc' = "remove"
    /\ UNCHANGED << fs, input_file, output_file, stdout, raised, run,
                    input, job_defaults, comparison, session, tsv >>

\* Mutant: nextflow_resume is deleted from params.DEFAULT_JOB_CONFIG itself,
\* no copy being made.
AddDeletesDefault ==
    /\ pc = "add"
    /\ IF NEXTFLOW_RESUME \in Keys(job_defaults)
       THEN /\ job_defaults' = JobConfig(job_defaults)
            /\ config' = AddParams(config, job_defaults)
            /\ pre_prefix' = config'
            /\ pc' = "prefix"
            /\ raised' = raised
       ELSE /\ job_defaults' = job_defaults
            /\ config' = AddFrom(config, UPDATES, 1)
            /\ pre_prefix' = pre_prefix
            /\ pc' = "raised"
            /\ raised' = "KeyError"
    /\ UNCHANGED << fs, input_file, output_file, stdout, run,
                    input, comparison, session, tsv >>

\* Lines 171-181. del job_config[params.NEXTFLOW_RESUME] raises KeyError
\* when the job defaults have no such key.
Add ==
    /\ pc = "add"
    /\ IF NEXTFLOW_RESUME \in Keys(job_defaults)
       THEN /\ config' = AddParams(config, job_defaults)
            /\ pre_prefix' = config'
            /\ pc' = "prefix"
            /\ raised' = raised
       ELSE /\ config' = AddFrom(config, UPDATES, 1)
            /\ pre_prefix' = pre_prefix
            /\ pc' = "raised"
            /\ raised' = "KeyError"
    /\ UNCHANGED << fs, input_file, output_file, stdout, run,
                    input, job_defaults, comparison, session, tsv >>

\* Lines 183-186.
Prefix ==
    /\ pc = "prefix"
    /\ LET r == IndexPrefixes(config)
       IN  /\ config' = r.config
           /\ raised' = r.raised
           /\ pc' = IF r.raised = "none" THEN "remove" ELSE "raised"
    /\ UNCHANGED << fs, input_file, output_file, stdout,
                    run, input, pre_prefix, job_defaults, comparison,
                    session, tsv >>

\* Lines 188-191; upgrade_config returns to upgrade_config_file (line 214)
\* or to the caller that passed the dict.
Remove ==
    /\ pc = "remove"
    /\ config' = RemoveUnused(config)
    /\ pc' = IF input_file # NoFile THEN "write" ELSE "returned"
    /\ UNCHANGED << fs, input_file, output_file, stdout, raised,
                    run, input, pre_prefix, job_defaults, comparison,
                    session, tsv >>

\* Mutant: the configuration is printed although a file was written.
WriteConfigAndPrint ==
    /\ pc = "write"
    /\ stdout' = Append(stdout, config)
    /\ fs' = IF output_file # NoFile
             THEN [fs EXCEPT ![output_file] = YamlFile(config)]
             ELSE fs
    /\ pc' = "done"
    /\ UNCHANGED << input_file, output_file, config, raised,
                    run, input, pre_prefix, job_defaults, comparison,
                    session, tsv >>

\* yaml.dump(config, f) to output_file, or print(yaml.dump(config))
WriteConfig ==
    /\ pc = "write"
    /\ IF output_file # NoFile
       THEN /\ fs' = [fs EXCEPT ![output_file] = YamlFile(config)]
            /\ stdout' = stdout
       ELSE /\ stdout' = Append(stdout, config)
            /\ fs' = fs
    /\ pc' = "done"
    /\ UNCHANGED << input_file, output_file, config, raised,
                    run, input, pre_prefix, job_defaults, comparison,
                    session, tsv >>

\* upgrade_config called a second time, on the dict the first call left.
UpgradeAgain ==
    /\ pc = "returned"
    /\ run = 1
    /\ run' = 2
    /\ input' = config
    /\ pc' = "rename"
    /\ UNCHANGED << fs, input_file, output_file, stdout, config, raised,
                    pre_prefix, job_defaults, comparison,
                    session, tsv >>

NextConfig ==
    \/ Rename
    \/ Add
    \/ Prefix
    \/ Remove
    \/ UpgradeAgain

NextFile ==
    \/ CheckInput
    \/ LoadConfig
    \/ Rename
    \/ Add
    \/ Prefix
    \/ Remove
    \/ WriteConfig

\* upgrade_config on every input dict, then once more on its result.
Spec == InitConfig /\ [][NextConfig]_vars

\* upgrade_config_file on every input file and output argument.
SpecFile == InitFile /\ [][NextFile]_vars

(* ===================================================== compare_sam_files *)
\* Bounds of the test harness' inputs.
MaxPath == 4
MaxRecords == 2

\* path.split('/') in posixpath.normpath: the components of a path.
RECURSIVE SplitFrom(_, _)
SplitFrom(rest, comp) ==
    IF rest = << >> THEN << comp >>
    ELSE IF Head(rest) = "/"
         THEN << comp >> \o SplitFrom(Tail(rest), << >>)
         ELSE SplitFrom(Tail(rest), Append(comp, Head(rest)))

SplitSep(path) == SplitFrom(path, << >>)

\* '/'.join(comps)
RECURSIVE JoinSep(_)
JoinSep(comps) ==
    IF comps = << >> THEN << >>
    ELSE IF Len(comps) = 1 THEN comps[1]
         ELSE comps[1] \o << "/" >> \o JoinSep(Tail(comps))

\* posixpath.normpath: 2 for exactly two leading slashes, 1 for any other
\* number of them, 0 for none.
InitialSlashes(path) ==
    IF path = << >> \/ path[1] # "/" THEN 0
    ELSE IF /\ Len(path) >= 2
            /\ path[2] = "/"
            /\ ~(Len(path) >= 3 /\ path[3] = "/")
         THEN 2
         ELSE 1

DOT == << "." >>
DOTDOT == << ".", "." >>

\* posixpath.normpath's loop over the components: empty and "." components
\* are dropped, ".." removes the component before it.
RECURSIVE NormComps(_, _, _)
NormComps(comps, new_comps, initial_slashes) ==
    IF comps = << >> THEN new_comps
    ELSE LET comp == Head(comps)
         IN  IF comp = << >> \/ comp = DOT
             THEN NormComps(Tail(comps), new_comps, initial_slashes)
             ELSE IF \/ comp # DOTDOT
                     \/ (initial_slashes = 0 /\ new_comps = << >>)
                     \/ (new_comps # << >>
                            /\ new_comps[Len(new_comps)] = DOTDOT)
             THEN NormComps(Tail(comps), Append(new_comps, comp),
                            initial_slashes)
             ELSE IF new_comps # << >>
             THEN NormComps(Tail(comps),
                            SubSeq(new_comps, 1, Len(new_comps) - 1),
                            initial_slashes)
             ELSE NormComps(Tail(comps), new_comps, initial_slashes)

\* Mutant: the path is left as it is.
NoNormPath(path) == path

\* os.path.normpath(path)
NormPath(path) ==
    IF path = << >> THEN DOT
    ELSE LET initial_slashes == InitialSlashes(path)
             comps == NormComps(SplitSep(path), << >>, initial_slashes)
             normed == [i \in 1..initial_slashes |-> "/"] \o JoinSep(comps)
         IN  IF normed = << >> THEN DOT ELSE normed

\* os.path.basename(path): what follows the last "/".
BaseName(path) == SubSeq(path, LastSlash(path) + 1, Len(path))

\* os.path.join(a, b)
Join(a, b) ==
    IF b # << >> /\ b[1] = "/" THEN b
    ELSE IF a = << >> \/ a[Len(a)] = "/" THEN a \o b
    ELSE a \o << "/" >> \o b

\* The sample and the file name a test passes to compare_sam_files.
SAMPLE == << "s" >>
FILE_NAME == << "f" >>

\* A SAM record: its reference coordinate and one more of its fields.
Positions == { 1, 2 }
ReadNames == { "q", "r" }
Reads == [pos : Positions, name : ReadNames]

\* samtools sort puts a record before the first record of a greater
\* coordinate: records of one coordinate keep the order they came in.
RECURSIVE Insert(_, _)
Insert(sorted, read) ==
    IF sorted = << >> THEN << read >>
    ELSE IF read.pos < Head(sorted).pos THEN << read >> \o sorted
    ELSE << Head(sorted) >> \o Insert(Tail(sorted), read)

RECURSIVE SortFrom(_, _)
SortFrom(reads, sorted) ==
    IF reads = << >> THEN sorted
    ELSE SortFrom(Tail(reads), Insert(sorted, Head(reads)))

\* pysam.sort("-o", copy, file): the records of file by coordinate.
PysamSort(reads) == SortFrom(reads, << >>)

\* sam_bam.equal_sam and compare_files.compare_files on two SAM files:
\* the records are compared one by one, in the files' order.
EqualSam(expected, actual) ==
    /\ Len(expected) = Len(actual)
    /\ \A i \in 1..Len(expected) : expected[i] = actual[i]

\* A subdirectory of the scratch directory: absent, or a directory that
\* holds a copy of a SAM file or no file.
NoDir == [kind |-> "absent"]
NoCopy == [present |-> FALSE]
Copy(reads) == [present |-> TRUE, reads |-> reads]
Dir(copy) == [kind |-> "dir", copy |-> copy]

\* What an earlier use left in a subdirectory: a file no sort writes.
STALE == Copy(<< [pos |-> 2, name |-> "r"], [pos |-> 1, name |-> "q"] >>)

RECURSIVE SeqsUpTo(_, _)
SeqsUpTo(S, n) ==
    IF n = 0 THEN { << >> }
    ELSE LET shorter == SeqsUpTo(S, n - 1)
         IN  shorter \cup { Append(s, x) : s \in shorter, x \in S }

\* The directories of the configuration file, the --expected directories,
\* the SAM files and the scratch directories compare_sam_files is run on.
DirChars == { "a", "/", "." }
Directories == SeqsUpTo(DirChars, MaxPath)
ExpectedDirectories == { << "/", "x" >>, << "x", "/" >> }
SamFiles == SeqsUpTo(Reads, MaxRecords)
SubDirs == { "expected", "actual" }
FreshScratch == [d \in SubDirs |-> NoDir]
Scratches == [SubDirs -> { NoDir, Dir(STALE) }]

\* upgrade_config and upgrade_config_file are not called.
NoUpgrade ==
    /\ fs = [p \in Files |-> Absent]
    /\ input_file = NoFile
    /\ output_file = NoFile
    /\ stdout = << >>
    /\ config = EmptyConfig
    /\ run = 1
    /\ input = EmptyConfig
    /\ pre_prefix = EmptyConfig
    /\ job_defaults = DEFAULT_JOB_CONFIG

\* compare_sam_files called: on every directory with two SAM files in a
\* fresh scratch directory, and on every pair of SAM files in every
\* scratch directory.
InitSam ==
    /\ NoUpgrade
    /\ NoSession
    /\ NoTsv
    /\ pc = "resolve"
    /\ raised = "none"
    /\ dir_name = << >>
    /\ expected_file = << >>
    /\ expected_directory \in ExpectedDirectories
    /\ \/ /\ directory \in Directories
          /\ scratch = FreshScratch
          /\ sam = [expected |-> << >>, actual |-> << >>]
       \/ /\ directory = << "v", "/", "t" >>
          /\ scratch \in Scratches
          /\ sam \in [expected : SamFiles, actual : SamFiles]

\* Lines 279-282.
ResolveExpected ==
    /\ pc = "resolve"
    /\ dir_name' = BaseName(NormPath(directory))
    /\ expected_file' =
           Join(Join(Join(expected_directory, dir_name'), SAMPLE), FILE_NAME)
    /\ pc' = "mkdir_expected"
    /\ UNCHANGED << upgrade, raised, directory, expected_directory, scratch,
                    sam, session, tsv >>

\* Mutant: os.makedirs(path, exist_ok=True)
MakeDirs(name, next) ==
    /\ pc = "mkdir_" \o name
    /\ scratch' = IF scratch[name].kind = "dir" THEN scratch
                  ELSE [scratch EXCEPT ![name] = Dir(NoCopy)]
    /\ pc' = next
    /\ raised' = raised
    /\ UNCHANGED << upgrade, directory, expected_directory, dir_name,
                    expected_file, sam, session, tsv >>

\* os.mkdir(path): raises FileExistsError if path exists.
MkDir(name, next) ==
    /\ pc = "mkdir_" \o name
    /\ IF scratch[name].kind = "dir"
       THEN /\ raised' = "FileExistsError"
            /\ pc' = "raised"
            /\ scratch' = scratch
       ELSE /\ scratch' = [scratch EXCEPT ![name] = Dir(NoCopy)]
            /\ pc' = next
            /\ raised' = raised
    /\ UNCHANGED << upgrade, directory, expected_directory, dir_name,
                    expected_file, sam, session, tsv >>

\* Lines 283-284.
MkdirExpected == MkDir("expected", "mkdir_actual")

\* Lines 285-286.
MkdirActual == MkDir("actual", "sort_expected")

\* Line 289.
SortExpected ==
    /\ pc = "sort_expected"
    /\ scratch' = [scratch EXCEPT
                      !["expected"] = Dir(Copy(PysamSort(sam.expected)))]
    /\ pc' = "sort_actual"
    /\ UNCHANGED << upgrade, raised, directory, expected_directory, dir_name,
                    expected_file, sam, session, tsv >>

\* Mutant: the actual file is sorted in place before it is copied.
SortActualInPlace ==
    /\ pc = "sort_actual"
    /\ sam' = [sam EXCEPT !.actual = PysamSort(sam.actual)]
    /\ scratch' = [scratch EXCEPT !["actual"] = Dir(Copy(sam'.actual))]
    /\ pc' = "equal_sam"
    /\ UNCHANGED << upgrade, raised, directory, expected_directory, dir_name,
                    expected_file, session, tsv >>

\* Line 290.
SortActual ==
    /\ pc = "sort_actual"
    /\ scratch' = [scratch EXCEPT
                      !["actual"] = Dir(Copy(PysamSort(sam.actual)))]
    /\ pc' = "equal_sam"
    /\ UNCHANGED << upgrade, raised, directory, expected_directory, dir_name,
                    expected_file, sam, session, tsv >>

\* Line 291: the comparator returns, or raises AssertionError.
CompareCopies ==
    /\ pc = "equal_sam"
    /\ raised' = IF EqualSam(scratch["expected"].copy.reads,
                             scratch["actual"].copy.reads)
                 THEN "none"
                 ELSE "AssertionError"
    /\ pc' = "compared"
    /\ UNCHANGED << upgrade, directory, expected_directory, dir_name,
                    expected_file, scratch, sam, session, tsv >>

NextSam ==
    \/ ResolveExpected
    \/ MkdirExpected
    \/ MkdirActual
    \/ SortExpected
    \/ SortActual
    \/ CompareCopies

\* compare_sam_files on every input.
SpecSam == InitSam /\ [][NextSam]_vars

(* ========================================================== test modules *)
\* What pytest reports for a test: its outcome, what decided it, and the
\* existence assertions and comparators the test called, in order.
NotRun == [outcome |-> "none", by |-> "none", calls |-> << >>]
Passed == [outcome |-> "passed", by |-> "test", calls |-> << >>]

\* pytest.skip(...) in the body of a test.
Skip == [outcome |-> "skipped", by |-> "test", calls |-> << >>]

\* assert os.path.exists(actual_file)
AssertExists(f, artifact) ==
    [outcome |-> IF f[artifact].actual THEN "passed" ELSE "failed",
     by |-> "test",
     calls |-> << << "exists", artifact >> >>]

\* A comparator called on the expected and the actual file: it returns if
\* both exist and are equivalent, and raises otherwise.
Compare(comparator, f, artifact) ==
    [outcome |-> IF /\ f[artifact].expected
                    /\ f[artifact].actual
                    /\ f[artifact].equal
                 THEN "passed"
                 ELSE "failed",
     by |-> "test",
     calls |-> << << comparator, artifact >> >>]

\* utils.equal_tsv's keyword arguments: none given, and both given as True.
NoTolerances == [ignore_row_order |-> FALSE, na_to_empty_str |-> FALSE]
BothTolerances == [ignore_row_order |-> TRUE, na_to_empty_str |-> TRUE]

\* utils.equal_tsv called on the expected and the actual file with the
\* keyword arguments of the call.
CompareTsv(f, artifact, kwargs) ==
    [outcome |-> Compare("equal_tsv", f, artifact).outcome,
     by |-> "test",
     calls |-> << << "equal_tsv", artifact, kwargs >> >>]

\* One statement after another: an exception ends the test.
Then(first, rest) ==
    IF first.outcome = "passed"
    THEN [outcome |-> rest.outcome, by |-> "test",
          calls |-> first.calls \o rest.calls]
    ELSE first

\* integration, lines 155-183.
integration_test_hisat2_build_index(p, o, f) ==
    IF ~p["build_indices"] THEN Skip
    ELSE
    Compare("equal_file_sizes", f, "file")

\* integration, lines 186-204.
integration_test_cutadapt_fq(p, o, f) ==
    Compare("equal_fastq", f, "file")

\* integration, lines 207-233.
integration_test_umitools_extract_fq(p, o, f) ==
    IF ~p["extract_umis"] THEN Skip
    ELSE
    Compare("equal_fastq", f, "file")

\* integration, lines 236-258.
integration_test_hisat_fq(p, o, f) ==
    Compare("equal_fastq", f, "file")

\* integration, lines 294-318.
integration_test_hisat2_sam(p, o, f) ==
    Compare("compare_sam_files", f, "file")

\* integration, lines 321-340.
integration_test_trim5p_mismatch_sam(p, o, f) ==
    Compare("compare_sam_files", f, "file")

\* Mutant: the rows are compared in any order.
integration_test_trim5p_mismatch_tsv_any_order(p, o, f) ==
    CompareTsv(f, "file", [ignore_row_order |-> TRUE, na_to_empty_str |-> FALSE])

\* integration, lines 343-362.
integration_test_trim5p_mismatch_tsv(p, o, f) ==
    CompareTsv(f, "file", NoTolerances)

\* integration, lines 365-391.
integration_test_samtools_view_sort_index_orf_map_clean_bam(p, o, f) ==
    Then(Compare("equal_bam", f, "file"),
         Compare("equal_file_sizes", f, "bai"))

\* integration, lines 394-417.
integration_test_samtools_index_dedup_bam(p, o, f) ==
    IF ~p["dedup_umis"] THEN Skip
    ELSE
    Then(AssertExists(f, "file"),
         AssertExists(f, "bai"))

\* Mutant: the files are compared also after deduplication.
integration_test_samtools_view_sort_index_compares(p, o, f) ==
    IF ~f["file"].expected THEN Skip
    ELSE
    Then(AssertExists(f, "file"),
         Then(AssertExists(f, "bai"),
              Then(Compare("equal_bam", f, "file"),
                   Compare("equal_file_sizes", f, "bai"))))

\* integration, lines 420-459.
integration_test_samtools_view_sort_index(p, o, f) ==
    IF ~f["file"].expected THEN Skip
    ELSE
    Then(AssertExists(f, "file"),
         Then(AssertExists(f, "bai"),
              IF p["dedup_umis"] THEN Passed
              ELSE
              Then(Compare("equal_bam", f, "file"),
                   Compare("equal_file_sizes", f, "bai"))))

\* Mutant: the statistics files are compared.
integration_test_umitools_dedup_stats_tsv_compares(p, o, f) ==
    IF ~p["dedup_umis"] THEN Skip
    ELSE
    IF ~p["dedup_stats"] THEN Skip
    ELSE
    IF ~f["file"].expected THEN Skip
    ELSE
    Then(AssertExists(f, "file"),
         Compare("equal_tsv", f, "file"))

\* integration, lines 462-506.
integration_test_umitools_dedup_stats_tsv(p, o, f) ==
    IF ~p["dedup_umis"] THEN Skip
    ELSE
    IF ~p["dedup_stats"] THEN Skip
    ELSE
    IF ~f["file"].expected THEN Skip
    ELSE
    AssertExists(f, "file")

\* integration, lines 509-540.
integration_test_umitools_pre_dedup_group_tsv(p, o, f) ==
    IF ~p["dedup_umis"] THEN Skip
    ELSE
    IF ~p["group_umis"] THEN Skip
    ELSE
    CompareTsv(f, "file", NoTolerances)

\* integration, lines 543-572.
integration_test_umitools_post_dedup_group_tsv(p, o, f) ==
    IF ~p["dedup_umis"] THEN Skip
    ELSE
    IF ~p["group_umis"] THEN Skip
    ELSE
    AssertExists(f, "file")

\* integration, lines 575-604.
integration_test_bedtools_bedgraph(p, o, f) ==
    IF ~p["make_bedgraph"] THEN Skip
    ELSE
    Compare("equal_bedgraph", f, "file")

\* integration, lines 607-627.
integration_test_bam_to_h5_h5(p, o, f) ==
    IF ~f["file"].expected THEN Skip
    ELSE
    Compare("equal_h5", f, "file")

\* integration, lines 630-665.
integration_test_generate_stats_figs_tsv(p, o, f) ==
    IF ~f["file"].expected THEN Skip
    ELSE
    CompareTsv(f, "file", NoTolerances)

\* integration, lines 668-702.
integration_test_generate_stats_figs_pdf(p, o, f) ==
    IF ~p["output_pdfs"] THEN Skip
    ELSE
    IF ~f["file"].expected THEN Skip
    ELSE
    AssertExists(f, "file")

\* integration, lines 705-734.
integration_test_analysis_outputs_html(p, o, f) ==
    IF ~p["run_static_html"] THEN Skip
    ELSE
    Then(AssertExists(f, "file"),
         Compare("equal_html", f, "file"))

\* integration, lines 737-756.
integration_test_collate_orf_tpms_and_counts_tsv(p, o, f) ==
    IF ~f["file"].expected THEN Skip
    ELSE
    CompareTsv(f, "file", BothTolerances)

\* integration, lines 759-780.
integration_test_read_counts_per_file_tsv(p, o, f) ==
    IF ~p["count_reads"] THEN Skip
    ELSE
    Compare("equal_read_counts", f, "file")

\* The tests of the integration module in the order of the file: the directory
\* fixture each takes, whether it uses skip_index_tmp_fixture, whether it
\* takes a sample, and the files it looks at.
integration_tests == <<
    [name |-> "test_hisat2_build_index",
     dir |-> "index", gate |-> TRUE, sample |-> FALSE,
     artifacts |-> {"file"}],
    [name |-> "test_cutadapt_fq",
     dir |-> "tmp", gate |-> TRUE, sample |-> TRUE,
     artifacts |-> {"file"}],
    [name |-> "test_umitools_extract_fq",
     dir |-> "tmp", gate |-> TRUE, sample |-> TRUE,
     artifacts |-> {"file"}],
    [name |-> "test_hisat_fq",
     dir |-> "tmp", gate |-> TRUE, sample |-> TRUE,
     artifacts |-> {"file"}],
    [name |-> "test_hisat2_sam",
     dir |-> "tmp", gate |-> TRUE, sample |-> TRUE,
     artifacts |-> {"file"}],
    [name |-> "test_trim5p_mismatch_sam",
     dir |-> "tmp", gate |-> TRUE, sample |-> TRUE,
     artifacts |-> {"file"}],
    [name |-> "test_trim5p_mismatch_tsv",
     dir |-> "tmp", gate |-> TRUE, sample |-> TRUE,
     artifacts |-> {"file"}],
    [name |-> "test_samtools_view_sort_index_orf_map_clean_bam",
     dir |-> "tmp", gate |-> TRUE, sample |-> TRUE,
     artifacts |-> {"file", "bai"}],
    [name |-> "test_samtools_index_dedup_bam",
     dir |-> "tmp", gate |-> TRUE, sample |-> TRUE,
     artifacts |-> {"file", "bai"}],
    [name |-> "test_samtools_view_sort_index",
     dir |-> "output", gate |-> FALSE, sample |-> TRUE,
     artifacts |-> {"file", "bai"}],
    [name |-> "test_umitools_dedup_stats_tsv",
     dir |-> "tmp", gate |-> TRUE, sample |-> TRUE,
     artifacts |-> {"file"}],
    [name |-> "test_umitools_pre_dedup_group_tsv",
     dir |-> "tmp", gate |-> TRUE, sample |-> TRUE,
     artifacts |-> {"file"}],
    [name |-> "test_umitools_post_dedup_group_tsv",
     dir |-> "tmp", gate |-> TRUE, sample |-> TRUE,
     artifacts |-> {"file"}],
    [name |-> "test_bedtools_bedgraph",
     dir |-> "output", gate |-> FALSE, sample |-> TRUE,
     artifacts |-> {"file"}],
    [name |-> "test_bam_to_h5_h5",
     dir |-> "output", gate |-> FALSE, sample |-> TRUE,
     artifacts |-> {"file"}],
    [name |-> "test_generate_stats_figs_tsv",
     dir |-> "output", gate |-> FALSE, sample |-> TRUE,
     artifacts |-> {"file"}],
    [name |-> "test_generate_stats_figs_pdf",
     dir |-> "output", gate |-> FALSE, sample |-> TRUE,
     artifacts |-> {"file"}],
    [name |-> "test_analysis_outputs_html",
     dir |-> "output", gate |-> FALSE, sample |-> TRUE,
     artifacts |-> {"file"}],
    [name |-> "test_collate_orf_tpms_and_counts_tsv",
     dir |-> "output", gate |-> FALSE, sample |-> FALSE,
     artifacts |-> {"file"}],
    [name |-> "test_read_counts_per_file_tsv",
     dir |-> "output", gate |-> FALSE, sample |-> FALSE,
     artifacts |-> {"file"}] >>

\* pytest calls the test function of this name.
integration_call(name, p, o, f) ==
    CASE name = "test_hisat2_build_index" ->
          integration_test_hisat2_build_index(p, o, f)
      [] name = "test_cutadapt_fq" ->
          integration_test_cutadapt_fq(p, o, f)
      [] name = "test_umitools_extract_fq" ->
          integration_test_umitools_extract_fq(p, o, f)
      [] name = "test_hisat_fq" ->
          integration_test_hisat_fq(p, o, f)
      [] name = "test_hisat2_sam" ->
          integration_test_hisat2_sam(p, o, f)
      [] name = "test_trim5p_mismatch_sam" ->
          integration_test_trim5p_mismatch_sam(p, o, f)
      [] name = "test_trim5p_mismatch_tsv" ->
          integration_test_trim5p_mismatch_tsv(p, o, f)
      [] name = "test_samtools_view_sort_index_orf_map_clean_bam" ->
          integration_test_samtools_view_sort_index_orf_map_clean_bam(p, o, f)
      [] name = "test_samtools_index_dedup_bam" ->
          integration_test_samtools_index_dedup_bam(p, o, f)
      [] name = "test_samtools_view_sort_index" ->
          integration_test_samtools_view_sort_index(p, o, f)
      [] name = "test_umitools_dedup_stats_tsv" ->
          integration_test_umitools_dedup_stats_tsv(p, o, f)
      [] name = "test_umitools_pre_dedup_group_tsv" ->
          integration_test_umitools_pre_dedup_group_tsv(p, o, f)
      [] name = "test_umitools_post_dedup_group_tsv" ->
          integration_test_umitools_post_dedup_group_tsv(p, o, f)
      [] name = "test_bedtools_bedgraph" ->
          integration_test_bedtools_bedgraph(p, o, f)
      [] name = "test_bam_to_h5_h5" ->
          integration_test_bam_to_h5_h5(p, o, f)
      [] name = "test_generate_stats_figs_tsv" ->
          integration_test_generate_stats_figs_tsv(p, o, f)
      [] name = "test_generate_stats_figs_pdf" ->
          integration_test_generate_stats_figs_pdf(p, o, f)
      [] name = "test_analysis_outputs_html" ->
          integration_test_analysis_outputs_html(p, o, f)
      [] name = "test_collate_orf_tpms_and_counts_tsv" ->
          integration_test_collate_orf_tpms_and_counts_tsv(p, o, f)
      [] name = "test_read_counts_per_file_tsv" ->
          integration_test_read_counts_per_file_tsv(p, o, f)

\* regression, lines 168-190.
regression_test_hisat2_build_index(p, o, f) ==
    Compare("compare_files", f, "file")

\* regression, lines 193-211.
regression_test_cutadapt_fq(p, o, f) ==
    Compare("compare_files", f, "file")

\* regression, lines 214-240.
regression_test_umitools_extract_fq(p, o, f) ==
    IF ~p["extract_umis"] THEN Skip
    ELSE
    Compare("compare_files", f, "file")

\* regression, lines 243-266.
regression_test_hisat_fq(p, o, f) ==
    Compare("compare_files", f, "file")

\* regression, lines 302-326.
regression_test_hisat2_sam(p, o, f) ==
    Compare("compare_sam_files", f, "file")

\* regression, lines 329-349.
regression_test_trim5p_mismatch_sam(p, o, f) ==
    Compare("compare_sam_files", f, "file")

\* regression, lines 352-371.
regression_test_trim5p_mismatch_tsv(p, o, f) ==
    Compare("compare_files", f, "file")

\* regression, lines 374-413.
regression_test_samtools_view_sort_index_pre_dedup_bam(p, o, f) ==
    IF ~p["dedup_umis"] THEN Skip
    ELSE
    IF o.nextflow THEN Skip
    ELSE
    Then(Compare("compare_files", f, "file"),
         Compare("compare_files", f, "bai"))

\* regression, lines 416-447.
regression_test_samtools_view_sort_index_orf_map_clean_bam(p, o, f) ==
    IF ~o.nextflow THEN Skip
    ELSE
    Then(Compare("compare_files", f, "file"),
         Compare("compare_files", f, "bai"))

\* regression, lines 450-479.
regression_test_samtools_index_dedup_bam(p, o, f) ==
    IF ~p["dedup_umis"] THEN Skip
    ELSE
    IF ~o.nextflow THEN Skip
    ELSE
    Then(AssertExists(f, "file"),
         AssertExists(f, "bai"))

\* regression, lines 482-520.
regression_test_samtools_view_sort_index(p, o, f) ==
    IF ~f["file"].expected THEN Skip
    ELSE
    Then(AssertExists(f, "file"),
         Then(AssertExists(f, "bai"),
              IF p["dedup_umis"] THEN Passed
              ELSE
              Then(Compare("compare_files", f, "file"),
                   Compare("compare_files", f, "bai"))))

\* regression, lines 523-570.
regression_test_umitools_dedup_stats_tsv(p, o, f) ==
    IF ~p["dedup_umis"] THEN Skip
    ELSE
    IF ~p["dedup_stats"] THEN Skip
    ELSE
    IF ~f["file"].expected THEN Skip
    ELSE
    AssertExists(f, "file")

\* regression, lines 573-600.
regression_test_umitools_pre_dedup_group_tsv(p, o, f) ==
    IF ~p["group_umis"] THEN Skip
    ELSE
    Compare("compare_files", f, "file")

\* regression, lines 603-627.
regression_test_umitools_post_dedup_group_tsv(p, o, f) ==
    IF ~p["group_umis"] THEN Skip
    ELSE
    AssertExists(f, "file")

\* regression, lines 630-656.
regression_test_bedtools_bedgraph(p, o, f) ==
    IF ~f["file"].expected THEN Skip
    ELSE
    Compare("compare_files", f, "file")

\* regression, lines 659-680.
regression_test_bam_to_h5_h5(p, o, f) ==
    IF ~f["file"].expected THEN Skip
    ELSE
    Compare("compare_files", f, "file")

\* regression, lines 683-714.
regression_test_generate_stats_figs_tsv(p, o, f) ==
    IF ~f["file"].expected THEN Skip
    ELSE
    Compare("compare_files", f, "file")

\* regression, lines 717-749.
regression_test_generate_stats_figs_pdf(p, o, f) ==
    IF ~f["file"].expected THEN Skip
    ELSE
    Compare("compare_files", f, "file")

\* regression, lines 752-773.
regression_test_collate_tpms_tsv(p, o, f) ==
    IF ~f["file"].expected THEN Skip
    ELSE
    Compare("compare_files", f, "file")

\* regression, lines 776-791.
regression_test_read_counts_tsv(p, o, f) ==
    Compare("equal_read_counts", f, "file")

\* The tests of the regression module in the order of the file: the directory
\* fixture each takes, whether it uses skip_index_tmp_fixture, whether it
\* takes a sample, and the files it looks at.
regression_tests == <<
    [name |-> "test_hisat2_build_index",
     dir |-> "index", gate |-> TRUE, sample |-> FALSE,
     artifacts |-> {"file"}],
    [name |-> "test_cutadapt_fq",
     dir |-> "tmp", gate |-> TRUE, sample |-> TRUE,
     artifacts |-> {"file"}],
    [name |-> "test_umitools_extract_fq",
     dir |-> "tmp", gate |-> TRUE, sample |-> TRUE,
     artifacts |-> {"file"}],
    [name |-> "test_hisat_fq",
     dir |-> "tmp", gate |-> TRUE, sample |-> TRUE,
     artifacts |-> {"file"}],
    [name |-> "test_hisat2_sam",
     dir |-> "tmp", gate |-> TRUE, sample |-> TRUE,
     artifacts |-> {"file"}],
    [name |-> "test_trim5p_mismatch_sam",
     dir |-> "tmp", gate |-> TRUE, sample |-> TRUE,
     artifacts |-> {"file"}],
    [name |-> "test_trim5p_mismatch_tsv",
     dir |-> "tmp", gate |-> TRUE, sample |-> TRUE,
     artifacts |-> {"file"}],
    [name |-> "test_samtools_view_sort_index_pre_dedup_bam",
     dir |-> "tmp", gate |-> TRUE, sample |-> TRUE,
     artifacts |-> {"file", "bai"}],
    [name |-> "test_samtools_view_sort_index_orf_map_clean_bam",
     dir |-> "tmp", gate |-> TRUE, sample |-> TRUE,
     artifacts |-> {"file", "bai"}],
    [name |-> "test_samtools_index_dedup_bam",
     dir |-> "tmp", gate |-> TRUE, sample |-> TRUE,
     artifacts |-> {"file", "bai"}],
    [name |-> "test_samtools_view_sort_index",
     dir |-> "output", gate |-> FALSE, sample |-> TRUE,
     artifacts |-> {"file", "bai"}],
    [name |-> "test_umitools_dedup_stats_tsv",
     dir |-> "tmp", gate |-> TRUE, sample |-> TRUE,
     artifacts |-> {"file"}],
    [name |-> "test_umitools_pre_dedup_group_tsv",
     dir |-> "tmp", gate |-> TRUE, sample |-> TRUE,
     artifacts |-> {"file"}],
    [name |-> "test_umitools_post_dedup_group_tsv",
     dir |-> "tmp", gate |-> TRUE, sample |-> TRUE,
     artifacts |-> {"file"}],
    [name |-> "test_bedtools_bedgraph",
     dir |-> "output", gate |-> FALSE, sample |-> TRUE,
     artifacts |-> {"file"}],
    [name |-> "test_bam_to_h5_h5",
     dir |-> "output", gate |-> FALSE, sample |-> TRUE,
     artifacts |-> {"file"}],
    [name |-> "test_generate_stats_figs_tsv",
     dir |-> "output", gate |-> FALSE, sample |-> TRUE,
     artifacts |-> {"file"}],
    [name |-> "test_generate_stats_figs_pdf",
     dir |-> "output", gate |-> FALSE, sample |-> TRUE,
     artifacts |-> {"file"}],
    [name |-> "test_collate_tpms_tsv",
     dir |-> "output", gate |-> FALSE, sample |-> FALSE,
     artifacts |-> {"file"}],
    [name |-> "test_read_counts_tsv",
     dir |-> "output", gate |-> FALSE, sample |-> FALSE,
     artifacts |-> {"file"}] >>

\* pytest calls the test function of this name.
regression_call(name, p, o, f) ==
    CASE name = "test_hisat2_build_index" ->
          regression_test_hisat2_build_index(p, o, f)
      [] name = "test_cutadapt_fq" ->
          regression_test_cutadapt_fq(p, o, f)
      [] name = "test_umitools_extract_fq" ->
          regression_test_umitools_extract_fq(p, o, f)
      [] name = "test_hisat_fq" ->
          regression_test_hisat_fq(p, o, f)
      [] name = "test_hisat2_sam" ->
          regression_test_hisat2_sam(p, o, f)
      [] name = "test_trim5p_mismatch_sam" ->
          regression_test_trim5p_mismatch_sam(p, o, f)
      [] name = "test_trim5p_mismatch_tsv" ->
          regression_test_trim5p_mismatch_tsv(p, o, f)
      [] name = "test_samtools_view_sort_index_pre_dedup_bam" ->
          regression_test_samtools_view_sort_index_pre_dedup_bam(p, o, f)
      [] name = "test_samtools_view_sort_index_orf_map_clean_bam" ->
          regression_test_samtools_view_sort_index_orf_map_clean_bam(p, o, f)
      [] name = "test_samtools_index_dedup_bam" ->
          regression_test_samtools_index_dedup_bam(p, o, f)
      [] name = "test_samtools_view_sort_index" ->
          regression_test_samtools_view_sort_index(p, o, f)
      [] name = "test_umitools_dedup_stats_tsv" ->
          regression_test_umitools_dedup_stats_tsv(p, o, f)
      [] name = "test_umitools_pre_dedup_group_tsv" ->
          regression_test_umitools_pre_dedup_group_tsv(p, o, f)
      [] name = "test_umitools_post_dedup_group_tsv" ->
          regression_test_umitools_post_dedup_group_tsv(p, o, f)
      [] name = "test_bedtools_bedgraph" ->
          regression_test_bedtools_bedgraph(p, o, f)
      [] name = "test_bam_to_h5_h5" ->
          regression_test_bam_to_h5_h5(p, o, f)
      [] name = "test_generate_stats_figs_tsv" ->
          regression_test_generate_stats_figs_tsv(p, o, f)
      [] name = "test_generate_stats_figs_pdf" ->
          regression_test_generate_stats_figs_pdf(p, o, f)
      [] name = "test_collate_tpms_tsv" ->
          regression_test_collate_tpms_tsv(p, o, f)
      [] name = "test_read_counts_tsv" ->
          regression_test_read_counts_tsv(p, o, f)

\* The workflow's flags the tests take from the configuration file.
Flags == { "build_indices", "extract_umis", "dedup_umis", "dedup_stats",
           "group_umis", "make_bedgraph", "output_pdfs", "run_static_html",
           "count_reads" }

\* The configurations the modules are run with: at most MaxOff flags are
\* false.
MaxOff == 1
Configs ==
    { c \in [Flags -> BOOLEAN] :
          Cardinality({ flag \in Flags : ~c[flag] }) <= MaxOff }

\* --skip-workflow and --check-index-tmp, and the regression module's
\* Nextflow option.
Modules == { "integration", "regression" }
Options(m) ==
    IF m = "integration"
    THEN [skip_workflow : BOOLEAN, check_index_tmp : BOOLEAN]
    ELSE [skip_workflow : BOOLEAN, check_index_tmp : BOOLEAN,
          nextflow : BOOLEAN]

\* Exit codes of the workflow.
ExitCodes == { 0, 1 }

\* An expected file and its actual file: whether each exists and, if both
\* do, whether the comparator of the test finds them equivalent.
FileStates ==
    { s \in [expected : BOOLEAN, actual : BOOLEAN, equal : BOOLEAN] :
          s.equal => (s.expected /\ s.actual) }
FilesOf(artifacts) == [artifacts -> FileStates]

TestsOf(m) == IF m = "integration" THEN integration_tests ELSE regression_tests

\* The test pytest is at.
CurrentTest == TestsOf(module)[index]

\* pytest runs a test module, from any of its tests (the tests can be
\* selected and ordered on the command line), under every choice of options
\* and every configuration.
InitTests ==
    /\ NoUpgrade
    /\ NoComparison
    /\ NoTsv
    /\ pc = "setup"
    /\ raised = "none"
    /\ module \in Modules
    /\ options \in Options(module)
    /\ params \in Configs
    /\ fixture = "unset"
    /\ invoked = << >>
    /\ index \in 1..Len(TestsOf(module))
    /\ files = << >>
    /\ report = NotRun
    /\ ran = FALSE

\* Lines 134-139: the workflow is run unless --skip-workflow was given, and
\* its exit code asserted to be 0. pytest sets a module-scoped fixture up
\* for the first test that uses it and keeps its result, or its exception.
integration_prep_riboviz_fixture ==
    /\ pc = "setup"
    /\ module = "integration"
    /\ fixture = "unset"
    /\ IF ~options.skip_workflow
       THEN \E exit_code \in ExitCodes :
                /\ invoked' = Append(invoked, [runner |-> "run_nextflow",
                                               exit_code |-> exit_code])
                /\ fixture' = IF exit_code = 0 THEN "ok" ELSE "failed"
       ELSE /\ invoked' = invoked
            /\ fixture' = "ok"
    /\ UNCHANGED << upgrade, pc, raised, comparison, module, options, params,
                    index, files, report, ran, tsv >>

\* Mutant: the exit code is not asserted.
regression_prep_riboviz_fixture_no_assert ==
    /\ pc = "setup"
    /\ module = "regression"
    /\ fixture = "unset"
    /\ IF ~options.skip_workflow
       THEN \E exit_code \in ExitCodes :
                /\ invoked' = Append(invoked,
                       [runner |-> IF ~options.nextflow THEN "prep_riboviz"
                                   ELSE "run_nextflow",
                        exit_code |-> exit_code])
                /\ fixture' = "ok"
       ELSE /\ invoked' = invoked
            /\ fixture' = "ok"
    /\ UNCHANGED << upgrade, pc, raised, comparison, module, options, params,
                    index, files, report, ran, tsv >>

\* Regression module, lines 144-152.
regression_prep_riboviz_fixture ==
    /\ pc = "setup"
    /\ module = "regression"
    /\ fixture = "unset"
    /\ IF ~options.skip_workflow
       THEN \E exit_code \in ExitCodes :
                /\ invoked' = Append(invoked,
                       [runner |-> IF ~options.nextflow THEN "prep_riboviz"
                                   ELSE "run_nextflow",
                        exit_code |-> exit_code])
                /\ fixture' = IF exit_code = 0 THEN "ok" ELSE "failed"
       ELSE /\ invoked' = invoked
            /\ fixture' = "ok"
    /\ UNCHANGED << upgrade, pc, raised, comparison, module, options, params,
                    index, files, report, ran, tsv >>

\* The fixture raised: pytest reports an error for every test that uses it,
\* without calling the test.
SetupError ==
    /\ pc = "setup"
    /\ fixture = "failed"
    /\ report' = [outcome |-> "error", by |-> "prep_riboviz_fixture",
                  calls |-> << >>]
    /\ pc' = "reported"
    /\ UNCHANGED << upgrade, raised, comparison, module, options, params,
                    fixture, invoked, index, files, ran, tsv >>

\* Mutant: every test uses skip_index_tmp_fixture.
UsesSkipIndexTmpAlways(test) == TRUE

\* @pytest.mark.usefixtures("skip_index_tmp_fixture") on the test.
UsesSkipIndexTmp(test) == test.gate

\* The test function has a scratch_directory parameter.
UsesScratch(test) ==
    test.name \in { "test_hisat2_sam", "test_trim5p_mismatch_sam" }

\* The fixture is set up: skip_index_tmp_fixture, in the tests that use it,
\* skips the test unless --check-index-tmp was given.
skip_index_tmp_fixture ==
    /\ pc = "setup"
    /\ fixture = "ok"
    /\ IF UsesSkipIndexTmp(CurrentTest) /\ ~options.check_index_tmp
       THEN /\ report' = [outcome |-> "skipped",
                          by |-> "skip_index_tmp_fixture", calls |-> << >>]
            /\ pc' = "reported"
       ELSE /\ report' = report
            /\ pc' = IF UsesScratch(CurrentTest) THEN "scratch" ELSE "call"
    /\ UNCHANGED << upgrade, raised, comparison, module, options, params,
                    fixture, invoked, index, files, ran, tsv >>

\* Mutant: the fixture is of module scope, the directory the first test
\* got is handed to the later ones.
scratch_directory_of_module ==
    /\ pc = "scratch"
    /\ scratch' = IF scratch = << >> THEN FreshScratch ELSE scratch
    /\ pc' = "call"
    /\ UNCHANGED << upgrade, raised, directory, expected_directory, dir_name,
                    expected_file, sam, session, tsv >>

\* Lines 142-152 (regression: 155-165): a function-scoped fixture, set up
\* for each test that asks for it; tmpdir is the test's own new directory,
\* in which "scratch" is made.
scratch_directory ==
    /\ pc = "scratch"
    /\ scratch' = FreshScratch
    /\ pc' = "call"
    /\ UNCHANGED << upgrade, raised, directory, expected_directory, dir_name,
                    expected_file, sam, session, tsv >>

\* os.mkdir (lines 284, 286) raised FileExistsError in compare_sam_files.
MkdirFailed ==
    [outcome |-> "failed", by |-> "test", calls |-> << << "mkdir", "file" >> >>]

\* pytest calls the test function, whatever the files it finds. A test
\* that calls compare_sam_files makes the two subdirectories of its scratch
\* directory first, and fails there if one exists.
CallTest ==
    /\ pc = "call"
    /\ \E f \in FilesOf(CurrentTest.artifacts) :
           /\ files' = f
           /\ report' = IF /\ UsesScratch(CurrentTest)
                           /\ \E d \in SubDirs : scratch[d].kind = "dir"
                        THEN MkdirFailed
                        ELSE IF module = "integration"
                        THEN integration_call(CurrentTest.name, params,
                                              options, f)
                        ELSE regression_call(CurrentTest.name, params,
                                             options, f)
    /\ scratch' = IF ~UsesScratch(CurrentTest) THEN scratch
                  ELSE IF scratch["expected"].kind = "dir" THEN scratch
                  ELSE IF scratch["actual"].kind = "dir"
                  THEN [scratch EXCEPT !["expected"] = Dir(NoCopy)]
                  ELSE [d \in SubDirs |-> Dir(NoCopy)]
    /\ pc' = "reported"
    /\ UNCHANGED << upgrade, raised, directory, expected_directory, dir_name,
                    expected_file, sam, module, options, params,
                    fixture, invoked, index, ran, tsv >>

\* Mutant: the fixture is of function scope, set up again for each test.
NextTestNewFixture ==
    /\ pc = "reported"
    /\ index' \in 1..Len(TestsOf(module))
    /\ files' = << >>
    /\ report' = NotRun
    /\ ran' = TRUE
    /\ fixture' = "unset"
    /\ pc' = "setup"
    /\ UNCHANGED << upgrade, raised, comparison, module, options, params,
                    invoked, tsv >>

\* pytest goes on to another test of the module, or to the same test
\* with other parameters (sample, file name).
NextTest ==
    /\ pc = "reported"
    /\ index' \in 1..Len(TestsOf(module))
    /\ files' = << >>
    /\ report' = NotRun
    /\ ran' = TRUE
    /\ pc' = "setup"
    /\ UNCHANGED << upgrade, raised, comparison, module, options, params,
                    fixture, invoked, tsv >>

NextTests ==
    \/ integration_prep_riboviz_fixture
    \/ regression_prep_riboviz_fixture
    \/ SetupError
    \/ skip_index_tmp_fixture
    \/ scratch_directory
    \/ CallTest
    \/ NextTest

\* A run of each test module.
SpecTests == InitTests /\ [][NextTests]_vars

(* ============================================================ equal_tsv *)
\* The bound: a TSV file has at most MaxRows rows (below its header).
MaxRows == 2

\* The rows of the files: a key and a value, which may be missing, written
\* as NA or as the empty string.
TsvRows == { << "a", "1" >>, << "b", "1" >>, << "b", "NA" >>, << "b", "" >> }
TsvFiles == SeqsUpTo(TsvRows, MaxRows)
Tolerances == [ignore_row_order : BOOLEAN, na_to_empty_str : BOOLEAN]

\* The order of the cells in a sort.
CellRank(cell) ==
    CASE cell = "" -> 0
      [] cell = "1" -> 1
      [] cell = "NA" -> 2
      [] cell = "a" -> 3
      [] cell = "b" -> 4

\* row sorts before other: at the first column where they differ.
RowBefore(row, other) ==
    \E i \in 1..Len(row) :
        /\ \A j \in 1..(i - 1) : row[j] = other[j]
        /\ CellRank(row[i]) < CellRank(other[i])

RECURSIVE InsertRow(_, _)
InsertRow(sorted, row) ==
    IF sorted = << >> THEN << row >>
    ELSE IF RowBefore(row, Head(sorted)) THEN << row >> \o sorted
    ELSE << Head(sorted) >> \o InsertRow(Tail(sorted), row)

RECURSIVE SortRowsFrom(_, _)
SortRowsFrom(rows, sorted) ==
    IF rows = << >> THEN sorted
    ELSE SortRowsFrom(Tail(rows), InsertRow(sorted, Head(rows)))

\* The rows sorted on all columns.
SortRows(rows) == SortRowsFrom(rows, << >>)

\* A missing value (NA) is read as the empty string.
NaToEmptyStr(rows) ==
    [i \in 1..Len(rows) |->
        [j \in 1..Len(rows[i]) |->
            IF rows[i][j] = "NA" THEN "" ELSE rows[i][j]]]

\* Mutant: the rows are never sorted.
EqualTsvInOrder(expected, actual, kwargs) ==
    LET read(rows) == IF kwargs.na_to_empty_str THEN NaToEmptyStr(rows)
                      ELSE rows
    IN  read(expected) = read(actual)

\* utils.equal_tsv(expected, actual, ignore_row_order, na_to_empty_str):
\* the files are read, with NA as the empty string if asked, their rows
\* sorted if asked, and then compared row by row.
EqualTsv(expected, actual, kwargs) ==
    LET read(rows) == IF kwargs.na_to_empty_str THEN NaToEmptyStr(rows)
                      ELSE rows
        order(rows) == IF kwargs.ignore_row_order THEN SortRows(rows)
                       ELSE rows
    IN  order(read(expected)) = order(read(actual))

\* The calls of utils.equal_tsv a test of the integration module makes when
\* every flag is true and its files are there.
TsvCallsOf(test) ==
    LET r == integration_call(test.name,
                 [flag \in Flags |-> TRUE],
                 [skip_workflow |-> FALSE, check_index_tmp |-> TRUE],
                 [a \in test.artifacts |->
                     [expected |-> TRUE, actual |-> TRUE, equal |-> TRUE]])
    IN  { r.calls[i] : i \in { n \in 1..Len(r.calls) :
                                  r.calls[n][1] = "equal_tsv" } }

\* The tests of the integration module that call utils.equal_tsv.
TsvChecks ==
    { integration_tests[i].name :
        i \in { n \in 1..Len(integration_tests) :
                  TsvCallsOf(integration_tests[n]) # {} } }

\* The keyword arguments of the test's call.
TolerancesOf(name) ==
    LET test == CHOOSE t \in Range(integration_tests) : t.name = name
    IN  (CHOOSE call \in TsvCallsOf(test) : TRUE)[3]

\* utils.equal_tsv is called on every pair of files: directly, with every
\* choice of keyword arguments, or by a test of the integration module.
InitTsv ==
    /\ NoUpgrade
    /\ NoComparison
    /\ NoSession
    /\ raised = "none"
    /\ tsv_files \in [expected : TsvFiles, actual : TsvFiles]
    /\ \/ /\ tsv_check = "none"
          /\ tolerances \in Tolerances
          /\ pc = "equal_tsv"
       \/ /\ tsv_check \in TsvChecks
          /\ tolerances = << >>
          /\ pc = "check"

\* The test reaches its call of utils.equal_tsv (lines 358, 536, 663, 753).
CallTsvCheck ==
    /\ pc = "check"
    /\ tolerances' = TolerancesOf(tsv_check)
    /\ pc' = "equal_tsv"
    /\ UNCHANGED << upgrade, raised, comparison, session, tsv_check,
                    tsv_files >>

\* The comparator returns, or raises AssertionError.
CompareTsvFiles ==
    /\ pc = "equal_tsv"
    /\ raised' = IF EqualTsv(tsv_files.expected, tsv_files.actual, tolerances)
                 THEN "none"
                 ELSE "AssertionError"
    /\ pc' = "compared"
    /\ UNCHANGED << upgrade, comparison, session, tsv >>

NextTsv ==
    \/ CallTsvCheck
    \/ CompareTsvFiles

\* utils.equal_tsv on every input.
SpecTsv == InitTsv /\ [][NextTsv]_vars

(* ================================================================ claims *)
\* upgrade_config has returned (without raising) to its caller.
Returned == pc = "returned"

\* For every parameter, the entries of RENAMES that rename to it.
RenamesTo ==
    [key \in AllKeys |-> { i \in 1..Len(RENAMES) : RENAMES[i][2] = key }]

\* The entries of RENAMES that rename a key present in a dict to key.
LegacyPresent(c, key) ==
    { i \in RenamesTo[key] : RENAMES[i][1] \in DOMAIN c }

\* res is the final path segment of orig: what follows its last "/".
IsFinalSegment(orig, res) ==
    /\ \A i \in 1..Len(res) : res[i] # "/"
    /\ Len(res) <= Len(orig)
    /\ SubSeq(orig, Len(orig) - Len(res) + 1, Len(orig)) = res
    /\ Len(res) < Len(orig) => orig[Len(orig) - Len(res)] = "/"

\* C1: when upgrade_config has succeeded on a configuration, a second
\* upgrade_config on the result succeeds and leaves every key and value,
\* the two index prefixes included, as the first call left them.
C1_Idempotent ==
    run = 2 => /\ raised = "none"
               /\ config = input

C1_Witness ==
    /\ run = 2
    /\ Returned
    /\ config[RRNA_INDEX_PREFIX] = StrVal(<<"r">>)
    /\ "dataset" \in DOMAIN config

\* C2 (as stated): after upgrade_config every legacy key of RENAMES present
\* in the input is absent and its current key holds the legacy key's value.
C2_RenamedHoldsInputValue ==
    Returned =>
        \A i \in 1..Len(RENAMES) :
            RENAMES[i][1] \in DOMAIN input =>
                /\ RENAMES[i][1] \notin DOMAIN config
                /\ RENAMES[i][2] \in DOMAIN config
                /\ config[RENAMES[i][2]] = input[RENAMES[i][1]]

\* C2 (amended): after upgrade_config has returned, every legacy key of
\* RENAMES present in the input is absent; its current key is present and,
\* when no later entry of RENAMES renames another present legacy key to the
\* same current key, holds the legacy key's value, which for the two index
\* prefixes has been reduced to its final path segment.
C2_RenamedHoldsLastLegacyValue ==
    Returned =>
        \A i \in 1..Len(RENAMES) :
            LET old_key == RENAMES[i][1]
                new_key == RENAMES[i][2]
            IN  old_key \in DOMAIN input =>
                    /\ old_key \notin DOMAIN config
                    /\ new_key \in DOMAIN config
                    /\ (\A j \in LegacyPresent(input, new_key) : j <= i) =>
                           IF new_key \in Range(INDEX_PREFIX_KEYS)
                           THEN /\ config[new_key].t = "str"
                                /\ IsFinalSegment(input[old_key].v, config[new_key].v)
                           ELSE config[new_key] = input[old_key]

C2_Witness ==
    /\ Returned
    /\ run = 1
    /\ { "StopInCDS", "stop_in_cds", "orf_index" } \subseteq DOMAIN input
    /\ input["StopInCDS"] # input["stop_in_cds"]
    /\ config["stop_in_feature"] = input["stop_in_cds"]
    /\ config[ORF_INDEX_PREFIX] # input["orf_index"]

\* The defaults table: UPDATES and the job defaults, without nextflow_resume,
\* which is a command-line only parameter and has no documented default.
Defaults ==
    UPDATES \o SelectSeq(DEFAULT_JOB_CONFIG, LAMBDA e : e[1] # NEXTFLOW_RESUME)

\* C3 (as stated): after upgrade_config every key of the defaults table that
\* is absent from the input is present with the table's default.
C3_AbsentGetsDefault ==
    Returned =>
        \A i \in 1..Len(Defaults) :
            Defaults[i][1] \notin DOMAIN input =>
                /\ Defaults[i][1] \in DOMAIN config
                /\ config[Defaults[i][1]] = Defaults[i][2]

\* C3 (amended): once the default-injection pass of upgrade_config is over,
\* every key of the defaults table that is absent from the input, and none
\* of whose legacy names is present in the input, is present with the
\* table's default.
C3_AbsentAfterRenameGetsDefault ==
    pc \in { "prefix", "remove", "returned", "raised" } =>
        \A i \in 1..Len(Defaults) :
            LET key == Defaults[i][1]
            IN  (key \notin DOMAIN input /\ LegacyPresent(input, key) = {}) =>
                    /\ key \in DOMAIN config
                    /\ config[key] = Defaults[i][2]

C3_Witness ==
    /\ Returned
    /\ run = 1
    /\ "job_runtime" \notin DOMAIN input
    /\ "count_threshold" \notin DOMAIN input
    /\ config["job_runtime"] = StrVal(<<"4", "8", ":", "0", "0", ":", "0", "0">>)
    /\ config["count_threshold"] = IntVal(<<"6", "4">>)
    /\ "StopInCDS" \in DOMAIN input
    /\ config["stop_in_feature"] = True

\* C4 (as stated): after upgrade_config every key of the defaults table that
\* is present in the input has the value it has in the input.
C4_PresentKeepsValue ==
    Returned =>
        \A i \in 1..Len(Defaults) :
            Defaults[i][1] \in DOMAIN input =>
                /\ Defaults[i][1] \in DOMAIN config
                /\ config[Defaults[i][1]] = input[Defaults[i][1]]

\* C4 (amended): in every state of upgrade_config a key of the defaults
\* table that is present in the input, none of whose legacy names is present
\* in the input, is present with the value it has in the input (null and
\* false included).
C4_PresentWithoutLegacyKeepsValue ==
    pc \in { "rename", "add", "prefix", "remove", "returned", "raised" } =>
        \A i \in 1..Len(Defaults) :
            LET key == Defaults[i][1]
            IN  (key \in DOMAIN input /\ LegacyPresent(input, key) = {}) =>
                    /\ key \in DOMAIN config
                    /\ config[key] = input[key]

C4_Witness ==
    /\ Returned
    /\ run = 1
    /\ "count_reads" \in DOMAIN input
    /\ input["count_reads"] = None
    /\ config["count_reads"] = None

DocumentedRenames ==
    << <<"Buffer", "buffer">>,
       <<"MaxReadLen", "max_read_length">>,
       <<"MinReadLen", "min_read_length">>,
       <<"PrimaryID", "primary_id">>,
       <<"SecondID", "secondary_id">>,
       <<"StopInCDS", "stop_in_feature">>,
       <<"StopInFeature", "stop_in_feature">>,
       <<"codon_pos", "codon_positions_file">>,
       <<"nprocesses", "num_processes">>,
       <<"orf_fasta", "orf_fasta_file">>,
       <<"orf_index", "orf_index_prefix">>,
       <<"ribovizGFF", "is_riboviz_gff">>,
       <<"rRNA_fasta", "rrna_fasta_file">>,
       <<"rRNA_index", "rrna_index_prefix">>,
       <<"stop_in_cds", "stop_in_feature">>,
       <<"t_rna", "t_rna_file">>,
       <<"do_pos_sp_nt_freq", "output_metagene_normalized_profile">> >>

\* Every spelling (legacy or current) of the documented pair's parameter.
Spellings(new_key) ==
    { new_key } \cup { DocumentedRenames[i][1] :
                        i \in { j \in 1..Len(DocumentedRenames) :
                                  DocumentedRenames[j][2] = new_key } }

\* C6: for every rename old => new the docstring lists, a configuration whose
\* only spelling of the parameter is old, with value v, has after
\* upgrade_config no key old, and the key new holding v (for the two index
\* prefixes: v's file name, as the same docstring documents).
C6_DocumentedRenamesDone ==
    (Returned /\ run = 1) =>
        \A i \in 1..Len(DocumentedRenames) :
            LET old_key == DocumentedRenames[i][1]
                new_key == DocumentedRenames[i][2]
            IN  (DOMAIN input) \cap Spellings(new_key) = { old_key } =>
                    /\ old_key \notin DOMAIN config
                    /\ new_key \in DOMAIN config
                    /\ IF new_key \in Range(INDEX_PREFIX_KEYS)
                       THEN IsFinalSegment(input[old_key].v, config[new_key].v)
                       ELSE config[new_key] = input[old_key]

\* C7: when upgrade_config has returned, rrna_index_prefix and
\* orf_index_prefix hold a string, the final path segment of the value they
\* had before the index-prefix loop: no directory component is left.
C7_PrefixIsFinalSegment ==
    Returned =>
        \A i \in 1..Len(INDEX_PREFIX_KEYS) :
            LET key == INDEX_PREFIX_KEYS[i]
            IN  /\ key \in DOMAIN config
                /\ config[key].t = "str"
                /\ IsFinalSegment(pre_prefix[key].v, config[key].v)

C7_Witness ==
    /\ Returned
    /\ run = 1
    /\ "rRNA_index" \in DOMAIN input
    /\ input["rRNA_index"] = StrVal(<<"v", "/", "i", "/", "r">>)
    /\ config[RRNA_INDEX_PREFIX] = StrVal(<<"r">>)
    /\ ORF_INDEX_PREFIX \in DOMAIN input
    /\ pre_prefix[ORF_INDEX_PREFIX] = StrVal(<<"v", "/", "i", "/", "o">>)
    /\ config[ORF_INDEX_PREFIX] = StrVal(<<"o">>)

\* C8: while input_file is not a regular file, upgrade_config_file gets no
\* further than its assertion, which fails with AssertionError: nothing is
\* loaded or transformed, no file is created or written, nothing is printed.
C8_AssertBeforeAll ==
    fs[input_file].kind # "file" =>
        /\ pc \in { "call", "raised" }
        /\ pc = "raised" => raised = "AssertionError"
        /\ config = EmptyConfig
        /\ input = EmptyConfig
        /\ stdout = << >>
        /\ fs[OUTPUT] = Absent
        /\ fs[INPUT].data = EmptyConfig

C8_Witness ==
    /\ pc = "raised"
    /\ raised = "AssertionError"
    /\ fs[INPUT] = Directory
    /\ output_file = OUTPUT

\* C9: when input_file exists, upgrade_config_file raises nothing: the only
\* exception it ends with is the AssertionError of a missing input file.
C9_TransformNeverRaises ==
    pc = "raised" => raised = "AssertionError"

\* C10: when upgrade_config_file is done, the upgraded configuration is in
\* output_file and nothing was printed and no other file written if
\* output_file is given, and it was printed, once, and no file written if
\* output_file is None.
C10_OneDestination ==
    pc = "done" =>
        IF output_file # NoFile
        THEN /\ fs[output_file] = YamlFile(config)
             /\ stdout = << >>
             /\ \A p \in Files \ { output_file } :
                    fs[p] = IF p = INPUT THEN YamlFile(input) ELSE Absent
        ELSE /\ stdout = << config >>
             /\ fs[INPUT] = YamlFile(input)
             /\ fs[OUTPUT] = Absent

C10_Witness ==
    /\ pc = "done"
    /\ output_file = OUTPUT
    /\ fs[OUTPUT] = YamlFile(config)
    /\ fs[INPUT].data # config
    /\ stdout = << >>

\* compare_sam_files has computed the expected file's path.
Resolved == pc \notin { "resolve" }

\* The path without the separators it ends with.
RECURSIVE StripSeps(_)
StripSeps(path) ==
    IF path # << >> /\ path[Len(path)] = "/"
    THEN StripSeps(SubSeq(path, 1, Len(path) - 1))
    ELSE path

\* The last segment of the path, trailing separators put aside.
LastSegment(path) ==
    LET stripped == StripSeps(path)
        at == { i \in 1..Len(stripped) : stripped[i] = "/" }
        last == IF at = {} THEN 0 ELSE CHOOSE i \in at : \A j \in at : j <= i
    IN  SubSeq(stripped, last + 1, Len(stripped))

\* The expected file under the root joined with this segment.
ExpectedUnder(segment) ==
    Join(Join(Join(expected_directory, segment), SAMPLE), FILE_NAME)

\* C11 (as stated): for every actual directory and every expected root, the
\* expected directory is the root joined with the last segment of the
\* actual directory, trailing separators put aside.
C11_ExpectedIsRootJoinLastSegment ==
    Resolved => expected_file = ExpectedUnder(LastSegment(directory))

\* C11 (amended): for every actual directory that is not empty and whose
\* last segment, trailing separators put aside, is neither "." nor "..",
\* the expected directory is the root joined with that segment.
C11_ExpectedIsRootJoinLastName ==
    (Resolved /\ directory # << >>
        /\ LastSegment(directory) \notin { DOT, DOTDOT })
    => /\ dir_name = LastSegment(directory)
       /\ expected_file = ExpectedUnder(LastSegment(directory))

C11_Witness ==
    /\ Resolved
    /\ directory = << "/", "a", "/", "/" >>
    /\ expected_directory = << "/", "x" >>
    /\ expected_file = << "/", "x", "/", "a", "/", "s", "/", "f" >>

\* compare_sam_files is sorting or comparing, or has compared.
Sorting == pc \in { "sort_expected", "sort_actual", "equal_sam", "compared" }

\* C19: compare_sam_files creates the subdirectories "expected" and
\* "actual" of the scratch directory before it sorts; where one of them
\* exists already its creation raises an error, and then nothing is
\* sorted or compared and the existing subdirectory is left as it was.
C19_SubdirectoriesAreNew ==
    /\ [](Sorting => \A d \in SubDirs :
                         scratch[d].kind = "dir" /\ scratch[d] # Dir(STALE))
    /\ [](raised = "FileExistsError" =>
              \A d \in SubDirs : scratch[d] \in { NoDir, Dir(NoCopy), Dir(STALE) })
    /\ [][\A d \in SubDirs :
             scratch[d].kind = "dir" =>
                 /\ pc = "mkdir_" \o d =>
                        (pc' = "raised" /\ raised' = "FileExistsError")
                 /\ scratch[d] = Dir(STALE) => scratch'[d] = Dir(STALE)]_vars

C19_Witness ==
    /\ pc = "raised"
    /\ raised = "FileExistsError"
    /\ scratch["expected"] = Dir(NoCopy)
    /\ scratch["actual"] = Dir(STALE)

\* How many times the record occurs in the file.
Count(reads, read) == Cardinality({ i \in 1..Len(reads) : reads[i] = read })

\* The two files hold the same records, in whatever order.
SameRecords(expected, actual) ==
    \A read \in Reads : Count(expected, read) = Count(actual, read)

\* C20: sorting both SAM files by coordinate and comparing the sorted copies
\* record by record reports equal exactly when the two files hold the same
\* records, whatever their order, records of one coordinate included.
C20_SortThenCompare ==
    pc = "compared" =>
        (raised = "none" <=> SameRecords(sam.expected, sam.actual))

\* pytest has reported the outcome of the current test.
Reported == pc = "reported"

\* The comparators the test called.
Comparisons(r) == { i \in 1..Len(r.calls) : r.calls[i][1] # "exists" }

\* The test was skipped without asserting or comparing anything.
SkippedUntouched == report.outcome = "skipped" /\ report.calls = << >>

\* The feature flags that govern the artifact a check is about.
GovernedBy(name) ==
    CASE name = "test_umitools_extract_fq" -> { "extract_umis" }
      [] name \in { "test_samtools_index_dedup_bam",
                    "test_samtools_view_sort_index_pre_dedup_bam" } ->
             { "dedup_umis" }
      [] name = "test_umitools_dedup_stats_tsv" ->
             { "dedup_umis", "dedup_stats" }
      [] name \in { "test_umitools_pre_dedup_group_tsv",
                    "test_umitools_post_dedup_group_tsv" } ->
             { "group_umis" }
      [] name = "test_bedtools_bedgraph" -> { "make_bedgraph" }
      [] name = "test_generate_stats_figs_pdf" -> { "output_pdfs" }
      [] name = "test_analysis_outputs_html" -> { "run_static_html" }
      [] name \in { "test_read_counts_per_file_tsv",
                    "test_read_counts_tsv" } ->
             { "count_reads" }
      [] OTHER -> { }

\* C12: a check whose artifact is governed by a feature flag that is false
\* in the configuration is skipped, and calls neither an existence
\* assertion nor a comparator (the workflow fixture having succeeded).
C12_FlagOffSkips ==
    (Reported /\ fixture = "ok"
        /\ \E flag \in GovernedBy(CurrentTest.name) : ~params[flag])
    => SkippedUntouched

\* The current test is a check of a sample's file in the output directory.
SampleOutputCheck == CurrentTest.dir = "output" /\ CurrentTest.sample

\* C13: a check of a sample's file in the output directory is skipped, and
\* neither asserts nor compares, if the expected file does not exist (the
\* workflow fixture having succeeded).
C13_ExpectedMissingSkips ==
    (Reported /\ fixture = "ok" /\ SampleOutputCheck
        /\ report.by = "test" /\ ~files["file"].expected)
    => SkippedUntouched

\* The checks of the output BAM file and of the deduplicated BAM file.
DedupBamChecks ==
    { "test_samtools_view_sort_index", "test_samtools_index_dedup_bam" }

ExistenceOnlyChecks ==
    { "test_umitools_dedup_stats_tsv", "test_umitools_post_dedup_group_tsv" }

\* C15: the checks of the deduplication statistics files and of the
\* post-deduplication group file never call a comparator: they pass after
\* asserting that the actual file exists and fail only if it does not,
\* under every configuration and whatever the files hold.
C15_StatsAndGroupsExistenceOnly ==
    (Reported /\ CurrentTest.name \in ExistenceOnlyChecks)
    => /\ Comparisons(report) = { }
       /\ report.outcome = "passed" =>
              /\ report.calls = << << "exists", "file" >> >>
              /\ files["file"].actual
       /\ report.outcome = "failed" => ~files["file"].actual

C15_Witness ==
    /\ Reported
    /\ CurrentTest.name = "test_umitools_dedup_stats_tsv"
    /\ report.outcome = "passed"
    /\ files["file"] = [expected |-> TRUE, actual |-> TRUE, equal |-> FALSE]

\* The workflow was run and returned a non-zero exit code.
WorkflowFailed == invoked # << >> /\ invoked[1].exit_code # 0

\* C16: after the workflow has returned a non-zero exit code no test is
\* called, passed or skipped: every test that uses the fixture is reported
\* as an error, having asserted and compared nothing.
C16_FailedWorkflowFailsAll ==
    WorkflowFailed
    => /\ pc # "call"
       /\ report.outcome \in { "none", "error" }
       /\ report.calls = << >>
       /\ Reported => report.outcome = "error"

C16_Witness ==
    /\ WorkflowFailed
    /\ Reported
    /\ ran
    /\ CurrentTest.dir = "output"
    /\ report.outcome = "error"

\* The runner the module is to use.
Runner ==
    IF module = "regression" /\ ~options.nextflow
    THEN "prep_riboviz"
    ELSE "run_nextflow"

\* C17: the workflow is never run twice in a module's run, not after a
\* non-zero exit code either; it is not run under --skip-workflow, and
\* without it it has been run once, by the runner the options choose,
\* before any test is called or reported.
C17_WorkflowRunOnce ==
    /\ Len(invoked) <= 1
    /\ options.skip_workflow => invoked = << >>
    /\ (~options.skip_workflow /\ (pc \in { "scratch", "call", "reported" } \/ ran))
       => Len(invoked) = 1
    /\ \A i \in 1..Len(invoked) : invoked[i].runner = Runner

C17_Witness ==
    /\ module = "regression"
    /\ ~options.nextflow
    /\ invoked = << [runner |-> "prep_riboviz", exit_code |-> 1] >>
    /\ index = 3
    /\ ran
    /\ Reported

\* C18: the tests of files of the index and temporary directories are the
\* tests that use skip_index_tmp_fixture: without --check-index-tmp each of
\* them is skipped by it, and no test of a file of the output directory is
\* ever skipped by it.
C18_OnlyIndexTmpGated ==
    /\ CurrentTest.gate <=> CurrentTest.dir \in { "index", "tmp" }
    /\ (Reported /\ CurrentTest.dir = "output")
       => report.by # "skip_index_tmp_fixture"
    /\ (Reported /\ fixture = "ok" /\ CurrentTest.dir # "output"
           /\ ~options.check_index_tmp)
       => (report.by = "skip_index_tmp_fixture" /\ SkippedUntouched)

C18_Witness ==
    /\ Reported
    /\ module = "regression"
    /\ ~options.check_index_tmp
    /\ CurrentTest.dir = "output"
    /\ report.outcome = "passed"
    /\ report.calls # << >>

(* ------------------------------------------- upgrade_config, continued *)
\* The entry of RENAMES applied last among those that rename a key present
\* in c to key (0 when there is none).
LastLegacy(c, key) ==
    LET present == LegacyPresent(c, key)
    IN  IF present = {} THEN 0
        ELSE CHOOSE i \in present : \A j \in present : j <= i

\* The passes of the current call that are over.
RenameDone == pc \in { "add", "prefix", "remove", "returned", "write", "done" }
AddDone == pc \in { "prefix", "remove", "returned", "write", "done" }
PrefixDone == pc \in { "remove", "returned", "write", "done" }
RemoveDone == pc \in { "returned", "write", "done" }

\* The default of a key of the defaults table.
DefaultOf(key) ==
    Defaults[CHOOSE i \in 1..Len(Defaults) : Defaults[i][1] = key][2]

C23_LastLegacyWins ==
    (run = 1 /\ RenameDone) =>
        \A i, j \in 1..Len(RENAMES) :
            (/\ i < j
             /\ RENAMES[i][2] = RENAMES[j][2]
             /\ { RENAMES[i][1], RENAMES[j][1] } \subseteq DOMAIN input) =>
                /\ RENAMES[i][1] \notin DOMAIN config
                /\ RENAMES[j][1] \notin DOMAIN config
                /\ RENAMES[j][2] \in DOMAIN config
                /\ config[RENAMES[j][2]] = input[RENAMES[j][1]]

C23_Witness ==
    /\ Returned
    /\ run = 1
    /\ { "StopInCDS", "stop_in_cds" } \subseteq DOMAIN input
    /\ input["StopInCDS"] = True
    /\ input["stop_in_cds"] = False
    /\ "StopInCDS" \notin DOMAIN config
    /\ "stop_in_cds" \notin DOMAIN config
    /\ config["stop_in_feature"] = False

\* The parameters of the current schema: those the rename and defaults
\* tables produce, and dataset, which the workflow reads.
KnownKeys == CurrentKeys \cup { "dataset" }

\* C24: when upgrade_config has returned, every key of the configuration
\* is a parameter of the current schema: no unknown key persists.
C24_NoUnknownKey ==
    Returned => DOMAIN config \subseteq KnownKeys

\* The keys that are in a table of upgrade_config.
TableKeys ==
    LegacyKeys \cup { RENAMES[i][2] : i \in 1..Len(RENAMES) }
        \cup Keys(Defaults) \cup Range(INDEX_PREFIX_KEYS) \cup Range(UNUSED)

\* C25: in every state of a call of upgrade_config, every key of the input
\* that is in none of the tables is present with the value it has in the
\* input, and every key that is not in the input is a rename target or a
\* key of the defaults table.
C25_OtherKeysUntouched ==
    /\ \A k \in (DOMAIN input) \ TableKeys :
           /\ k \in DOMAIN config
           /\ config[k] = input[k]
    /\ (DOMAIN config) \ (DOMAIN input) \subseteq
           { RENAMES[i][2] : i \in 1..Len(RENAMES) } \cup Keys(Defaults)

C25_Witness ==
    /\ Returned
    /\ run = 1
    /\ { "dataset", "unknown" } \subseteq DOMAIN input
    /\ config["dataset"] = StrVal(<<"v", "/", "d">>)
    /\ config["unknown"] = input["unknown"]
    /\ "job_name" \notin DOMAIN input
    /\ "job_name" \in DOMAIN config

\* C26: in every state, after any number of calls of upgrade_config, the
\* job defaults params.DEFAULT_JOB_CONFIG are as they were before the first
\* call and still hold nextflow_resume (it is deleted from a copy), and a
\* configuration that came without nextflow_resume has none.
C26_TablesUnchanged ==
    /\ job_defaults = DEFAULT_JOB_CONFIG
    /\ NEXTFLOW_RESUME \in Keys(job_defaults)
    /\ NEXTFLOW_RESUME \notin DOMAIN input => NEXTFLOW_RESUME \notin DOMAIN config

C26_Witness ==
    /\ Returned
    /\ run = 2
    /\ NEXTFLOW_RESUME \notin DOMAIN config
    /\ "validate_only" \in DOMAIN config
    /\ NEXTFLOW_RESUME \in Keys(job_defaults)

\* C27: until upgrade_config_file has written its result, which it does
\* only when the input has been read and the transform has returned, no
\* file is created and the input file holds what was read from it, also
\* when the transform has raised; when it has written, nothing was raised,
\* the output file holds the upgraded configuration, computed from the
\* whole content of the input file also when it is the input file itself,
\* and an input file that is not the output file is as it was.
C27_WriteAfterTransform ==
    /\ pc # "done" =>
           /\ fs[OUTPUT] = Absent
           /\ pc \notin { "call", "load" } /\ fs[INPUT].kind = "file" =>
                  fs[INPUT] = YamlFile(input)
    /\ pc = "raised" => raised # "none"
    /\ pc = "done" =>
           /\ raised = "none"
           /\ output_file # INPUT => fs[INPUT] = YamlFile(input)
           /\ output_file = NoFile => fs[OUTPUT] = Absent
           /\ output_file # NoFile =>
                  /\ fs[output_file] = YamlFile(config)
                  /\ \A k \in (DOMAIN input) \ TableKeys :
                         /\ k \in DOMAIN fs[output_file].data
                         /\ fs[output_file].data[k] = input[k]
                  /\ \A i \in 1..Len(INDEX_PREFIX_KEYS) :
                         INDEX_PREFIX_KEYS[i] \in DOMAIN fs[output_file].data

C27_Witness ==
    /\ pc = "done"
    /\ output_file = INPUT
    /\ { "rRNA_index", "aligner" } \subseteq DOMAIN input
    /\ fs[INPUT].kind = "file"
    /\ fs[INPUT].data[RRNA_INDEX_PREFIX] = StrVal(<<"r">>)
    /\ "aligner" \notin DOMAIN fs[INPUT].data
    /\ fs[OUTPUT] = Absent

(* ------------------------------------------- compare_sam_files, continued *)
\* C30: no step of compare_sam_files changes the expected or the actual SAM
\* file, or any file outside the scratch directory; when both files are
\* sorted, and when they are compared, whether the comparison passes or
\* fails, the subdirectory "expected" of the scratch directory holds a copy
\* with the records of the expected file and the subdirectory "actual" a
\* copy with the records of the actual file: neither copy has replaced
\* the other.
C30_WritesOnlyInScratch ==
    /\ [][sam' = sam /\ fs' = fs]_vars
    /\ [](pc \in { "equal_sam", "compared" } =>
              /\ scratch["expected"].copy.present
              /\ scratch["actual"].copy.present
              /\ SameRecords(scratch["expected"].copy.reads, sam.expected)
              /\ SameRecords(scratch["actual"].copy.reads, sam.actual))

C30_Witness ==
    /\ pc = "compared"
    /\ raised = "AssertionError"
    /\ Len(sam.actual) = 2
    /\ sam.actual[1].pos > sam.actual[2].pos
    /\ scratch["actual"].copy.reads # sam.actual
    /\ ~SameRecords(sam.expected, sam.actual)
    /\ scratch["expected"].copy.reads = sam.expected

(* ------------------------------------------------ test modules, continued *)
\* What the test reports when it is run on its own: skipped by
\* skip_index_tmp_fixture, or what its body does on the flags, the options
\* and its files.
OutcomeAlone(m, test, p, o, f) ==
    IF test.gate /\ ~o.check_index_tmp THEN "skipped"
    ELSE IF m = "integration" THEN integration_call(test.name, p, o, f).outcome
    ELSE regression_call(test.name, p, o, f).outcome

\* C29: once prep_riboviz_fixture has succeeded (the workflow was run or
\* skipped), whatever tests were run before and in whatever order, and
\* whatever they reported, a test reports what it reports when run on its
\* own on the same flags, options and files; a test that compares SAM files
\* is called with a scratch directory that has neither subdirectory.
C29_OutcomeOfOwnInputs ==
    /\ (Reported /\ fixture = "ok") =>
           report.outcome = OutcomeAlone(module, CurrentTest, params, options, files)
    /\ (pc = "call" /\ UsesScratch(CurrentTest)) => scratch = FreshScratch

C29_Witness ==
    /\ Reported
    /\ ran
    /\ fixture = "ok"
    /\ invoked # << >>
    /\ CurrentTest.name = "test_trim5p_mismatch_sam"
    /\ report.outcome = "passed"
    /\ \A d \in SubDirs : scratch[d].kind = "dir"
    /\ ~params["dedup_umis"]

(* ------------------------------------------------------------- equal_tsv *)
\* How many times the row occurs in the file.
CountRow(rows, row) == Cardinality({ i \in 1..Len(rows) : rows[i] = row })

\* actual is a row-permuted copy of expected.
RowPermuted(expected, actual) ==
    \A row \in TsvRows : CountRow(expected, row) = CountRow(actual, row)

\* utils.equal_tsv has been called directly and has returned or raised.
Compared == pc = "compared" /\ tsv_check = "none"

\* C21 (as stated): on a file and a row-permuted copy of it the TSV
\* comparator reports equal when row-order independence is enabled, and
\* unequal when it is disabled.
C21_PermutedEqualIffIgnoringOrder ==
    (Compared /\ RowPermuted(tsv_files.expected, tsv_files.actual)) =>
        IF tolerances.ignore_row_order
        THEN raised = "none"
        ELSE raised = "AssertionError"

\* C21 (amended): on a file and a row-permuted copy of it the TSV
\* comparator reports equal when row-order independence is enabled; when
\* both options are disabled it reports unequal if the rows of the copy are
\* in another order, and equal if the copy has the file's rows in the
\* file's order.
C21_PermutedEqualUnlessOrderDiffers ==
    (Compared /\ RowPermuted(tsv_files.expected, tsv_files.actual)) =>
        /\ tolerances.ignore_row_order => raised = "none"
        /\ tolerances = NoTolerances =>
               (raised = "AssertionError" <=>
                    tsv_files.expected # tsv_files.actual)

C21_Witness ==
    /\ Compared
    /\ tolerances = [ignore_row_order |-> TRUE, na_to_empty_str |-> FALSE]
    /\ tsv_files.expected = << << "b", "NA" >>, << "a", "1" >> >>
    /\ tsv_files.actual = << << "a", "1" >>, << "b", "NA" >> >>
    /\ raised = "none"

\* C28: the tests of the integration module that call the TSV comparator
\* are those of the mismatch-trimming TSV file, the pre-deduplication UMI
\* groups, the per-sample statistics TSV files and the collated TPMs file;
\* the last one alone calls it with row-order independence and NA as the
\* empty string, the others call it with neither, and so fail on an actual
\* file that has the rows of the expected file in another order.
C28_OnlyCollatedTpmsTolerant ==
    /\ TsvChecks = { "test_trim5p_mismatch_tsv",
                     "test_umitools_pre_dedup_group_tsv",
                     "test_generate_stats_figs_tsv",
                     "test_collate_orf_tpms_and_counts_tsv" }
    /\ (tsv_check # "none" /\ pc \in { "equal_tsv", "compared" }) =>
           IF tsv_check = "test_collate_orf_tpms_and_counts_tsv"
           THEN /\ tolerances = BothTolerances
                /\ (/\ pc = "compared"
                    /\ RowPermuted(tsv_files.expected, tsv_files.actual))
                   => raised = "none"
           ELSE /\ tolerances = NoTolerances
                /\ (/\ pc = "compared"
                    /\ RowPermuted(tsv_files.expected, tsv_files.actual)
                    /\ tsv_files.expected # tsv_files.actual)
                   => raised = "AssertionError"

C28_Witness ==
    /\ pc = "compared"
    /\ tsv_check = "test_trim5p_mismatch_tsv"
    /\ tolerances = NoTolerances
    /\ tsv_files.expected = << << "a", "1" >>, << "b", "1" >> >>
    /\ tsv_files.actual = << << "b", "1" >>, << "a", "1" >> >>
    /\ raised = "AssertionError"

====
